---- MODULE Spec2Model ----
(***************************************************************************)
(* Hybrid retrieval engine of the regulations knowledge provider:          *)
(* RegulationsProvider (keyword/chunk scorer) and                          *)
(* EnhancedRegulationsProvider (entity lookup + tree reasoning + legacy    *)
(* fusion).  Text is modelled at character level with TLA+ strings; scores *)
(* are exact rationals kept as integers in units of 1/Scale.               *)
(***************************************************************************)
EXTENDS Integers, Sequences, FiniteSets, TLC

(***************************************************************************)
(* Python string primitives                                                *)
(***************************************************************************)
UpperChars == "ABCDEFGHIJKLMNOPQRSTUVWXYZ"
LowerChars == "abcdefghijklmnopqrstuvwxyz"
Digits == {"0", "1", "2", "3", "4", "5", "6", "7", "8", "9"}
Whitespace == {" ", "\n", "\t"}

CharAt(s, i) == SubSeq(s, i, i)

UpperSet == {CharAt(UpperChars, i) : i \in 1..Len(UpperChars)}

LowerMap ==
    [c \in UpperSet |->
        CharAt(LowerChars, CHOOSE i \in 1..Len(UpperChars) : CharAt(UpperChars, i) = c)]

\* str.lower() on one character
LowerChar(c) == IF c \in UpperSet THEN LowerMap[c] ELSE c

RECURSIVE Lower(_)
\* str.lower(), character by character (the string is halved at each step)
Lower(s) ==
    IF \A i \in 1..Len(s) : CharAt(s, i) \notin UpperSet THEN s
    ELSE IF Len(s) = 1 THEN LowerChar(s)
    ELSE LET h == Len(s) \div 2
         IN  Lower(SubSeq(s, 1, h)) \o Lower(SubSeq(s, h + 1, Len(s)))

\* the positions 1..len(s), in order
Positions(s) == [i \in 1..Len(s) |-> i]

\* the words of s that start and end at the given positions
WordsAt(s, starts, ends) ==
    [k \in 1..Len(starts) |-> SubSeq(s, starts[k], ends[k])]

\* the positions where a word starts (ends): a character that is not whitespace
\* and follows (precedes) whitespace or the boundary of the string
WordStarts(s) ==
    LET IsStart(i) == /\ CharAt(s, i) \notin Whitespace
                      /\ (i = 1 \/ CharAt(s, i - 1) \in Whitespace)
    IN  SelectSeq(Positions(s), IsStart)

WordEnds(s) ==
    LET IsEnd(i) == /\ CharAt(s, i) \notin Whitespace
                    /\ (i = Len(s) \/ CharAt(s, i + 1) \in Whitespace)
    IN  SelectSeq(Positions(s), IsEnd)

\* str.split(): split on runs of whitespace, no empty words
Split(s) == WordsAt(s, WordStarts(s), WordEnds(s))

\* the pieces of s between the separators at the given positions
PiecesAt(s, seps) ==
    [k \in 1..(Len(seps) + 1) |->
        SubSeq(s, (IF k = 1 THEN 0 ELSE seps[k - 1]) + 1,
                  (IF k = Len(seps) + 1 THEN Len(s) + 1 ELSE seps[k]) - 1)]

\* str.split(sep) with a one-character separator: empty pieces are kept
SplitOn(s, sep) ==
    LET IsSep(i) == CharAt(s, i) = sep
    IN  PiecesAt(s, SelectSeq(Positions(s), IsSep))

\* the least and the greatest element of a non-empty set of integers
Least(S) == CHOOSE i \in S : \A j \in S : i <= j
Greatest(S) == CHOOSE i \in S : \A j \in S : i >= j

\* the text from the first to the last of the given positions
Between(s, idx) == IF idx = <<>> THEN "" ELSE SubSeq(s, idx[1], idx[Len(idx)])

\* str.strip()
Strip(s) ==
    LET IsText(i) == CharAt(s, i) \notin Whitespace
    IN  Between(s, SelectSeq(Positions(s), IsText))

\* str.startswith(p)
StartsWith(s, p) == Len(p) <= Len(s) /\ SubSeq(s, 1, Len(p)) = p

\* the Python test "p in s" on strings
IsSubstr(p, s) ==
    \E i \in 0..(Len(s) - Len(p)) : SubSeq(s, i + 1, i + Len(p)) = p

RECURSIVE Join(_, _)
\* sep.join(seq)
Join(seq, sep) ==
    IF seq = <<>> THEN ""
    ELSE IF Len(seq) = 1 THEN seq[1]
    ELSE seq[1] \o sep \o Join(Tail(seq), sep)

\* set(seq)
ToSet(seq) == {seq[i] : i \in 1..Len(seq)}

\* the Python test "x in list"
InSeq(x, seq) == \E i \in 1..Len(seq) : seq[i] = x

Min(a, b) == IF a <= b THEN a ELSE b
Max(a, b) == IF a >= b THEN a ELSE b


(***************************************************************************)
(* Dictionaries are kept as sequences of entries in insertion order, as    *)
(* Python dicts are.                                                       *)
(***************************************************************************)
HasKey(d, k) == \E i \in 1..Len(d) : d[i].key = k

KeyIndex(d, k) == CHOOSE i \in 1..Len(d) : d[i].key = k

\* d.get(k, default)
DictGet(d, k, default) == IF HasKey(d, k) THEN d[KeyIndex(d, k)].val ELSE default

\* d[k] = v : an existing key keeps its position
DictSet(d, k, v) ==
    IF HasKey(d, k)
    THEN [d EXCEPT ![KeyIndex(d, k)] = [key |-> k, val |-> v]]
    ELSE Append(d, [key |-> k, val |-> v])

Keys(d) == [i \in 1..Len(d) |-> d[i].key]

(***************************************************************************)
(* Chunker: RegulationsProvider._parse_chunks                              *)
(***************************************************************************)
NewChunk(doc_id, n, title, lines, parent, first, last) ==
    [id |-> doc_id \o "_" \o ToString(n), title |-> title,
     content |-> Strip(Join(lines, "\n")), parent |-> parent,
     line_start |-> first, line_end |-> last]

\* "if current_chunk: ... if chunk_text: chunks.append(...)"
FlushChunk(st, doc_id, last) ==
    LET Flush(chunk_text) ==
            IF st.current_chunk # <<>> /\ chunk_text # ""
            THEN Append(st.chunks,
                        NewChunk(doc_id, Len(st.chunks),
                                 IF st.current_h2 # "" THEN st.current_h2 ELSE st.current_h1,
                                 st.current_chunk, st.current_h1, st.chunk_start_line, last))
            ELSE st.chunks
    IN  Flush(Strip(Join(st.current_chunk, "\n")))

\* a title line is kept in the text of the current chunk
ParseLineKeepTitle(st, line, i, doc_id) ==
    IF StartsWith(line, "# ") /\ ~StartsWith(line, "## ")
    THEN [st EXCEPT !.current_h1 = Strip(SubSeq(line, 3, Len(line))),
                    !.current_chunk = Append(st.current_chunk, line)]
    ELSE IF StartsWith(line, "## ")
    THEN [st EXCEPT !.chunks = FlushChunk(st, doc_id, i - 1),
                    !.current_h2 = Strip(SubSeq(line, 4, Len(line))),
                    !.current_chunk = <<line>>,
                    !.chunk_start_line = i]
    ELSE [st EXCEPT !.current_chunk = Append(st.current_chunk, line)]

\* one iteration of the loop over enumerate(lines); i is the 0-based line number
ParseLine(st, line, i, doc_id) ==
    IF StartsWith(line, "# ") /\ ~StartsWith(line, "## ")
    THEN [st EXCEPT !.current_h1 = Strip(SubSeq(line, 3, Len(line)))]
    ELSE IF StartsWith(line, "## ")
    THEN [st EXCEPT !.chunks = FlushChunk(st, doc_id, i - 1),
                    !.current_h2 = Strip(SubSeq(line, 4, Len(line))),
                    !.current_chunk = <<line>>,
                    !.chunk_start_line = i]
    ELSE [st EXCEPT !.current_chunk = Append(st.current_chunk, line)]

RECURSIVE ParseFrom(_, _, _, _)
ParseFrom(lines, i, st, doc_id) ==
    IF i >= Len(lines) THEN st
    ELSE ParseFrom(lines, i + 1, ParseLine(st, lines[i + 1], i, doc_id), doc_id)

_parse_chunks(content, doc_id) ==
    LET st0 == [current_h1 |-> "", current_h2 |-> "", current_chunk |-> <<>>,
                chunk_start_line |-> 0, chunks |-> <<>>]
        Parse(lines) == FlushChunk(ParseFrom(lines, 0, st0, doc_id), doc_id, Len(lines) - 1)
    IN  Parse(SplitOn(content, "\n"))

(***************************************************************************)
(* Scores.  A score s in [0,1] is the integer s * Scale; Scale is a        *)
(* multiple of every denominator that occurs (word and bigram counts of    *)
(* the queries, hundredths, and the tenths of the 0.7 scaling), so every   *)
(* \div below is exact.                                                    *)
(***************************************************************************)
Scale == 600 * 100
Unit == Scale \div 100

TargetSectionWeight == 35
MappedDocWeight == 15
KeywordDocWeight == 10
TitleBigramWeight == 10
TitleWordWeight == 5
ContentBigramWeight == 10
ContentWordWeight == 10
ExactPhraseWeight == 5

\* the score left as computed
Unclamped(score) == score

\* the final clamp is at one half
ClampHalf(score) == Min(score, Scale \div 2)

\* "return min(score, 1.0)"
ClampScore(score) == Min(score, Scale)

\* min(n / d, 1.0) * (w / 100)
RatioTerm(n, d, w) == (Min(n, d) * w * Unit) \div d

(***************************************************************************)
(* Sorting: list.sort(key=score, reverse=True) is stable                   *)
(***************************************************************************)
RECURSIVE InsertDesc(_, _)
InsertDesc(sorted, c) ==
    IF sorted = <<>> THEN <<c>>
    ELSE IF Head(sorted).score >= c.score
         THEN <<Head(sorted)>> \o InsertDesc(Tail(sorted), c)
         ELSE <<c>> \o sorted

RECURSIVE SortDescFrom(_, _, _)
SortDescFrom(seq, i, acc) ==
    IF i > Len(seq) THEN acc ELSE SortDescFrom(seq, i + 1, InsertDesc(acc, seq[i]))

\* the reverse of the descending order
SortByScoreAsc(seq) ==
    LET Reverse(sorted) == [i \in 1..Len(sorted) |-> sorted[Len(sorted) + 1 - i]]
    IN  Reverse(SortDescFrom(seq, 1, <<>>))

SortByScoreDesc(seq) == SortDescFrom(seq, 1, <<>>)

\* one element more than asked for
TakeOneMore(seq, n) == SubSeq(seq, 1, Min(n + 1, Len(seq)))

\* seq[:n] for n >= 0
Take(seq, n) == SubSeq(seq, 1, Min(n, Len(seq)))

\* list(set(ids)): the iteration order of a set of strings is fixed by the
\* process's string hashing; order is that per-process order
ListOfSet(S, order) ==
    LET idx == {i \in 1..Len(order) : order[i] \in S}
        F[n \in 0..Len(order)] ==
            IF n = 0 THEN <<>>
            ELSE IF n \in idx THEN Append(F[n - 1], order[n]) ELSE F[n - 1]
    IN  F[Len(order)]

(***************************************************************************)
(* Keyword/chunk scorer: RegulationsProvider                               *)
(***************************************************************************)
\* ['a','b','c'] -> ['a b', 'b c']
_get_bigrams(words) ==
    [i \in 1..(IF Len(words) = 0 THEN 0 ELSE Len(words) - 1) |-> words[i] \o " " \o words[i + 1]]

\* ref.split('#', 1)
SplitRef(ref) ==
    LET At(idx) == IF idx = {} THEN <<ref>>
                   ELSE <<SubSeq(ref, 1, Least(idx) - 1), SubSeq(ref, Least(idx) + 1, Len(ref))>>
    IN  At({i \in 1..Len(ref) : CharAt(ref, i) = "#"})

\* a section id is added also when the document already has it
AddRefRepeated(matched, ref) ==
    LET Add(m1, doc_id, parts, cur) ==
            IF Len(parts) > 1 /\ parts[2] # ""
            THEN DictSet(m1, doc_id, Append(cur, parts[2]))
            ELSE m1
        In(m1, doc_id, parts) == Add(m1, doc_id, parts, DictGet(m1, doc_id, <<>>))
        On(parts) ==
            In(IF HasKey(matched, parts[1]) THEN matched ELSE DictSet(matched, parts[1], <<>>),
               parts[1], parts)
    IN  On(SplitRef(ref))

\* the body of "for ref in doc_refs"
AddRef(matched, ref) ==
    LET Add(m1, doc_id, parts, cur) ==
            IF Len(parts) > 1 /\ parts[2] # "" /\ ~InSeq(parts[2], cur)
            THEN DictSet(m1, doc_id, Append(cur, parts[2]))
            ELSE m1
        In(m1, doc_id, parts) == Add(m1, doc_id, parts, DictGet(m1, doc_id, <<>>))
        On(parts) ==
            In(IF HasKey(matched, parts[1]) THEN matched ELSE DictSet(matched, parts[1], <<>>),
               parts[1], parts)
    IN  On(SplitRef(ref))

RECURSIVE AddRefs(_, _, _)
AddRefs(matched, refs, i) ==
    IF i > Len(refs) THEN matched ELSE AddRefs(AddRef(matched, refs[i]), refs, i + 1)

RECURSIVE MappedFrom(_, _, _, _)
MappedFrom(qm, query, i, matched) ==
    IF i > Len(qm) THEN matched
    ELSE MappedFrom(qm, query, i + 1,
                    IF IsSubstr(qm[i].key, query) THEN AddRefs(matched, qm[i].val, 1)
                    ELSE matched)

\* doc_id -> list of matched section ids
_get_mapped_sections(qm, query) == MappedFrom(qm, query, 1, <<>>)

\* the set of documents having a keyword in the query or in one of its words
_get_keyword_matched_documents(kw, query) ==
    LET Matched(query_words) ==
            UNION {ToSet(kw[i].val) : i \in {j \in 1..Len(kw) :
                      \/ IsSubstr(kw[j].key, query)
                      \/ \E w \in query_words : IsSubstr(kw[j].key, w)}}
    IN  Matched(ToSet(Split(query)))

ArticleWord == "Dieu"

\* re.search(r'Dieu\s+(\d+)', title): the leftmost match, digits taken greedily;
\* the result is <<>> (no match) or <<digits>>
ArticleSearch(title) ==
    LET n == Len(title)
        k == Len(ArticleWord)
        DigitsEnd(j) == CHOOSE e \in j..n :
                            /\ \A m \in j..e : CharAt(title, m) \in Digits
                            /\ (e = n \/ CharAt(title, e + 1) \notin Digits)
        \* p = start of the word, j = position of the first digit
        Match(p, j) == /\ p + k <= n
                       /\ SubSeq(title, p, p + k - 1) = ArticleWord
                       /\ j > p + k /\ j <= n
                       /\ \A m \in (p + k)..(j - 1) : CharAt(title, m) \in Whitespace
                       /\ CharAt(title, j) \in Digits
        Group(j) == <<SubSeq(title, j, DigitsEnd(j))>>
        From(p) == Group(CHOOSE i \in 1..n : Match(p, i))
        At(starts) == IF starts = {} THEN <<>> ELSE From(Least(starts))
    IN  At({p \in 1..n : \E j \in 1..n : Match(p, j)})

\* the article is looked up in every section the document declares, whether a
\* query mapping selected the section or not
ChunkMatchesDeclaredSection(chunk, doc_id, target_sections, section_articles) ==
    LET In(article_match) ==
            IF article_match = <<>> THEN FALSE
            ELSE \E i \in 1..Len(section_articles) :
                    /\ StartsWith(section_articles[i].key, doc_id \o "#")
                    /\ InSeq(article_match[1], section_articles[i].val)
    IN  In(ArticleSearch(chunk.title))

_chunk_matches_section(chunk, doc_id, target_sections, section_articles) ==
    LET In(article_match) ==
            IF article_match = <<>> THEN FALSE
            ELSE \E i \in 1..Len(target_sections) :
                    InSeq(article_match[1],
                          DictGet(section_articles, doc_id \o "#" \o target_sections[i], <<>>))
    IN  IF target_sections = <<>> THEN FALSE ELSE In(ArticleSearch(chunk.title))

_calculate_relevance_score(query, chunk, is_mapped, has_keyword, in_target_section) ==
    LET Score(query_lower, content_lower, query_words, query_bigrams,
              title_words, title_bigrams, content_words, content_bigrams) ==
            (IF in_target_section THEN TargetSectionWeight * Unit ELSE 0)
          + (IF is_mapped THEN MappedDocWeight * Unit ELSE 0)
          + (IF has_keyword THEN KeywordDocWeight * Unit ELSE 0)
          + (IF query_bigrams # {} /\ title_bigrams # {}
             THEN RatioTerm(Cardinality(query_bigrams \cap title_bigrams),
                            Cardinality(query_bigrams), TitleBigramWeight)
             ELSE 0)
          + (IF query_words # {}
             THEN (Cardinality(query_words \cap title_words) * TitleWordWeight * Unit)
                      \div Cardinality(query_words)
             ELSE 0)
          + (IF query_bigrams # {} /\ content_bigrams # {}
             THEN RatioTerm(Cardinality(query_bigrams \cap content_bigrams),
                            Cardinality(query_bigrams), ContentBigramWeight)
             ELSE 0)
          + (IF query_words # {}
             THEN RatioTerm(Cardinality(query_words \cap content_words),
                            Cardinality(query_words), ContentWordWeight)
             ELSE 0)
          + (IF IsSubstr(query_lower, content_lower) THEN ExactPhraseWeight * Unit ELSE 0)
        OnLists(query_lower, content_lower, query_word_list, title_word_list,
                content_word_list) ==
            Score(query_lower, content_lower,
                  ToSet(query_word_list), ToSet(_get_bigrams(query_word_list)),
                  ToSet(title_word_list), ToSet(_get_bigrams(title_word_list)),
                  ToSet(content_word_list), ToSet(_get_bigrams(content_word_list)))
        OnTexts(query_lower, title_lower, content_lower) ==
            OnLists(query_lower, content_lower,
                    Split(query_lower), Split(title_lower), Split(content_lower))
    IN  ClampScore(OnTexts(Lower(query), Lower(chunk.title), Lower(chunk.content)))

\* section_articles: "doc_id#section_id" -> [str(a) for a in articles]
RECURSIVE SecArtOfDoc(_, _, _, _)
SecArtOfDoc(acc, doc_id, sections, i) ==
    IF i > Len(sections) THEN acc
    ELSE SecArtOfDoc(DictSet(acc, doc_id \o "#" \o sections[i].id,
                             [a \in 1..Len(sections[i].articles) |->
                                 ToString(sections[i].articles[a])]),
                     doc_id, sections, i + 1)

RECURSIVE SectionArticles(_, _, _, _)
SectionArticles(acc, docs, relevant, i) ==
    IF i > Len(relevant) THEN acc
    ELSE SectionArticles(
            IF HasKey(docs, relevant[i])
            THEN SecArtOfDoc(acc, relevant[i], DictGet(docs, relevant[i], <<>>).sections, 1)
            ELSE acc,
            docs, relevant, i + 1)

LegacyChunk(doc, chunk, score) ==
    [content |-> chunk.content,
     source |-> doc.title \o " - " \o chunk.title,
     metadata |-> [doc_id |-> doc.id, chunk_id |-> chunk.id, title |-> chunk.title,
                   parent |-> chunk.parent, effective_date |-> doc.effective_date],
     score |-> score]

\* "if filters and filters.get("doc_id") and filters["doc_id"] != doc_id: continue";
\* filt = "" stands for no doc_id filter
PassesFilter(filt, doc_id) == filt = "" \/ filt = doc_id

\* the section bonus is never given
ScoredOfDocNoSection(doc, query_lower, mapped, keyword_docs, section_articles) ==
    LET ScoreOf(chunk) ==
            _calculate_relevance_score(query_lower, chunk,
                HasKey(mapped, doc.id), doc.id \in keyword_docs, FALSE)
        Add(acc, chunk, score) ==
            IF score > 0 THEN Append(acc, LegacyChunk(doc, chunk, score)) ELSE acc
        F[n \in 0..Len(doc.chunks)] ==
            IF n = 0 THEN <<>> ELSE Add(F[n - 1], doc.chunks[n], ScoreOf(doc.chunks[n]))
    IN  F[Len(doc.chunks)]

\* chunks with the score 0 are kept
ScoredOfDocKeepZero(doc, query_lower, mapped, keyword_docs, section_articles) ==
    LET ScoreOf(chunk) ==
            _calculate_relevance_score(query_lower, chunk,
                HasKey(mapped, doc.id), doc.id \in keyword_docs,
                _chunk_matches_section(chunk, doc.id, DictGet(mapped, doc.id, <<>>),
                                       section_articles))
        F[n \in 0..Len(doc.chunks)] ==
            IF n = 0 THEN <<>>
            ELSE Append(F[n - 1], LegacyChunk(doc, doc.chunks[n], ScoreOf(doc.chunks[n])))
    IN  F[Len(doc.chunks)]

\* the chunks of one relevant document with a score > 0, in chunk order
ScoredOfDoc(doc, query_lower, mapped, keyword_docs, section_articles) ==
    LET ScoreOf(chunk) ==
            _calculate_relevance_score(query_lower, chunk,
                HasKey(mapped, doc.id), doc.id \in keyword_docs,
                _chunk_matches_section(chunk, doc.id, DictGet(mapped, doc.id, <<>>),
                                       section_articles))
        Add(acc, chunk, score) ==
            IF score > 0 THEN Append(acc, LegacyChunk(doc, chunk, score)) ELSE acc
        F[n \in 0..Len(doc.chunks)] ==
            IF n = 0 THEN <<>> ELSE Add(F[n - 1], doc.chunks[n], ScoreOf(doc.chunks[n]))
    IN  F[Len(doc.chunks)]

\* RegulationsProvider.retrieve on the indexes (docs, qm, kw)
LegacyRetrieveOn(docs, qm, kw, order, query, top_k, filt) ==
    LET Result(scored_chunks) ==
            [chunks |-> Take(scored_chunks, top_k), total_found |-> Len(scored_chunks)]
        Scored(query_lower, mapped_sections, keyword_docs, relevant_doc_ids,
               section_articles) ==
            LET F[n \in 0..Len(relevant_doc_ids)] ==
                    IF n = 0 THEN <<>>
                    ELSE IF /\ HasKey(docs, relevant_doc_ids[n])
                            /\ PassesFilter(filt, relevant_doc_ids[n])
                         THEN F[n - 1] \o ScoredOfDoc(DictGet(docs, relevant_doc_ids[n], <<>>),
                                                      query_lower, mapped_sections,
                                                      keyword_docs, section_articles)
                         ELSE F[n - 1]
            IN  F[Len(relevant_doc_ids)]
        InDocs(query_lower, mapped_sections, keyword_docs, relevant_doc_ids) ==
            Scored(query_lower, mapped_sections, keyword_docs, relevant_doc_ids,
                   SectionArticles(<<>>, docs, relevant_doc_ids, 1))
        Matched(query_lower, mapped_sections, keyword_docs, matched_ids) ==
            InDocs(query_lower, mapped_sections, keyword_docs,
                   IF matched_ids = <<>> THEN Keys(docs) ELSE matched_ids)
        Mapped(query_lower, mapped_sections, keyword_docs) ==
            Matched(query_lower, mapped_sections, keyword_docs,
                    ListOfSet(ToSet(Keys(mapped_sections)) \cup keyword_docs, order))
        On(query_lower) ==
            Mapped(query_lower, _get_mapped_sections(qm, query_lower),
                   _get_keyword_matched_documents(kw, query_lower))
    IN  Result(SortByScoreDesc(On(Lower(query))))

(***************************************************************************)
(* RegulationsProvider.initialize on the legacy indexes                    *)
(*   leg = [documents, query_mappings, all_keywords, status]               *)
(***************************************************************************)
\* the keyword as written in the index file
KeywordAsWritten(keyword) == keyword

\* "keyword_lower = keyword.lower()"
KeywordKey(keyword) == Lower(keyword)

RECURSIVE AddKeywords(_, _, _, _)
AddKeywords(kw, keywords, doc_id, i) ==
    LET Add(keyword_lower) ==
            DictSet(kw, keyword_lower, Append(DictGet(kw, keyword_lower, <<>>), doc_id))
    IN  IF i > Len(keywords) THEN kw
        ELSE AddKeywords(Add(KeywordKey(keywords[i])), keywords, doc_id, i + 1)

\* the body of "for doc_info in documents"
LoadDoc(leg, info) ==
    IF ~info.file_exists THEN leg
    ELSE [leg EXCEPT
            !.documents = DictSet(leg.documents, info.id,
                [id |-> info.id, title |-> info.title, description |-> info.description,
                 keywords |-> info.keywords, sections |-> info.sections,
                 effective_date |-> info.effective_date, content |-> info.content,
                 chunks |-> _parse_chunks(info.content, info.id)]),
            !.all_keywords = AddKeywords(leg.all_keywords, info.keywords, info.id, 1)]

RECURSIVE LoadDocs(_, _, _)
LoadDocs(leg, infos, i) ==
    IF i > Len(infos) THEN leg ELSE LoadDocs(LoadDoc(leg, infos[i]), infos, i + 1)

\* the result is [leg |-> the indexes afterwards, raised |-> whether it raised]
LegacyInitialize(leg, index) ==
    IF index.kind = "missing"
    THEN [leg |-> [leg EXCEPT !.status = "degraded"], raised |-> FALSE]
    ELSE IF index.kind = "malformed"
    THEN [leg |-> [leg EXCEPT !.status = "unavailable"], raised |-> TRUE]
    ELSE [leg |-> [LoadDocs([leg EXCEPT !.query_mappings = index.query_mappings],
                            index.documents, 1)
                   EXCEPT !.status = "healthy"],
          raised |-> FALSE]

(***************************************************************************)
(* Strategy 1: entity lookup.  An attribute value is [isstr, s]: s is the  *)
(* string itself, or str(value) when the JSON value is not a string.       *)
(***************************************************************************)
EntityTextWeight == 30
AttrMatchWeight == 15
AttrMatchCap == 40
RuleTypeBonus == 30
EntityThreshold == 30

\* keyword_bonuses, written without diacritics
keyword_bonuses ==
    << [key |-> "phep", val |-> <<"leave", "annual_leave", "prorated_leave",
                                  "leave_accrual", "leave_credit", "leave_advance">>],
       [key |-> "thu viec", val |-> <<"probation">>],
       [key |-> "chinh thuc", val |-> <<"probation">>],
       [key |-> "thai san", val |-> <<"maternity", "paternity">>],
       [key |-> "ket hon", val |-> <<"special_leave", "wedding">>],
       [key |-> "gio lam", val |-> <<"working_hours", "working_days">>],
       [key |-> "di muon", val |-> <<"lateness", "late_threshold">>],
       [key |-> "ky luat", val |-> <<"disciplinary", "termination">>],
       [key |-> "vay", val |-> <<"loan", "financial">>] >>

StrVal(str) == [isstr |-> TRUE, s |-> str]
NullVal == [isstr |-> FALSE, s |-> "None"]

\* attrs.get("rule_type", "").lower() raises AttributeError on a non-string
RuleTypeRaises(entity) ==
    ~DictGet(entity.attributes, "rule_type", StrVal("")).isstr

\* _score_entity when rule_type is a string; query is already lower-cased
EntityScore(query, query_words, entity) ==
    LET attrs == entity.attributes
        Score(text_overlap, attr_match_count, bonuses) ==
            (IF text_overlap > 0
             THEN RatioTerm(text_overlap, Max(Cardinality(query_words), 1), EntityTextWeight)
             ELSE 0)
          + (IF attr_match_count > 0
             THEN Min(attr_match_count * AttrMatchWeight, AttrMatchCap) * Unit
             ELSE 0)
          + bonuses * RuleTypeBonus * Unit
        Bonuses(rule_type) ==
            Cardinality({k \in 1..Len(keyword_bonuses) :
                            /\ IsSubstr(keyword_bonuses[k].key, query)
                            /\ \E r \in 1..Len(keyword_bonuses[k].val) :
                                   IsSubstr(keyword_bonuses[k].val[r], rule_type)})
        AttrMatches(keys, vals) ==
            Cardinality({i \in 1..Len(attrs) : \E w \in query_words : IsSubstr(w, vals[i])})
          + Cardinality({i \in 1..Len(attrs) : \E w \in query_words : IsSubstr(w, keys[i])})
    IN  ClampScore(Score(Cardinality(query_words \cap ToSet(Split(Lower(entity.text)))),
                         AttrMatches([i \in 1..Len(attrs) |-> Lower(attrs[i].key)],
                                     [i \in 1..Len(attrs) |-> Lower(attrs[i].val.s)]),
                         Bonuses(Lower(DictGet(attrs, "rule_type", StrVal("")).s))))

\* [raised |-> TRUE] or [raised |-> FALSE, score |-> s]
_score_entity(query, query_words, entity) ==
    IF RuleTypeRaises(entity) THEN [raised |-> TRUE, score |-> 0]
    ELSE [raised |-> FALSE, score |-> EntityScore(query, query_words, entity)]

important_keys ==
    <<"rule_type", "condition", "duration", "amount", "calculation_method",
      "mechanism", "pay_status", "legal_reference", "restriction", "example">>

_format_entity_as_context(entity) ==
    LET attrs == entity.attributes
        Line(k, v) == "  - " \o k \o ": " \o v.s
        Imp[n \in 0..Len(important_keys)] ==
            IF n = 0 THEN <<>>
            ELSE IF HasKey(attrs, important_keys[n])
                 THEN Append(Imp[n - 1],
                             Line(important_keys[n], DictGet(attrs, important_keys[n], NullVal)))
                 ELSE Imp[n - 1]
        Rest[n \in 0..Len(attrs)] ==
            IF n = 0 THEN <<>>
            ELSE IF ~InSeq(attrs[n].key, important_keys)
                 THEN Append(Rest[n - 1], Line(attrs[n].key, attrs[n].val))
                 ELSE Rest[n - 1]
    IN  Join(<<"**[" \o entity.class \o "]** " \o entity.text>>
             \o Imp[Len(important_keys)] \o Rest[Len(attrs)], "\n")

EntityChunk(doc_id, entity, score) ==
    [content |-> _format_entity_as_context(entity),
     source |-> "Quy dinh (structured) - " \o entity.class,
     metadata |-> [doc_id |-> doc_id, entity_class |-> entity.class,
                   rule_type |-> DictGet(entity.attributes, "rule_type", StrVal("")).s,
                   source_type |-> "entity_lookup"],
     score |-> score]

\* all (document, entity) pairs the loops of _entity_lookup visit, in order
VisitedEntities(ents, filt) ==
    LET F[n \in 0..Len(ents)] ==
            IF n = 0 THEN <<>>
            ELSE IF ~PassesFilter(filt, ents[n].key) THEN F[n - 1]
                 ELSE F[n - 1] \o [i \in 1..Len(ents[n].val) |->
                                      [doc_id |-> ents[n].key, entity |-> ents[n].val[i]]]
    IN  F[Len(ents)]

\* _entity_lookup keeping the entities that score the threshold or more
EntityLookupAtThreshold(ents, query, filt) ==
    LET Collect(query_lower, query_words, visited) ==
            LET Add(acc, v, sc) ==
                    IF sc >= EntityThreshold * Unit
                    THEN Append(acc, EntityChunk(v.doc_id, v.entity, sc))
                    ELSE acc
                F[n \in 0..Len(visited)] ==
                    IF n = 0 THEN <<>>
                    ELSE Add(F[n - 1], visited[n],
                             EntityScore(query_lower, query_words, visited[n].entity))
            IN  IF \E n \in 1..Len(visited) :
                       _score_entity(query_lower, query_words, visited[n].entity).raised
                THEN [raised |-> TRUE, chunks |-> <<>>]
                ELSE [raised |-> FALSE, chunks |-> F[Len(visited)]]
        On(query_lower) ==
            Collect(query_lower, ToSet(Split(query_lower)), VisitedEntities(ents, filt))
    IN  On(Lower(query))

\* _entity_lookup: raises as soon as one visited entity makes _score_entity raise
_entity_lookup(ents, query, filt) ==
    LET Collect(query_lower, query_words, visited) ==
            LET Add(acc, v, sc) ==
                    IF sc > EntityThreshold * Unit
                    THEN Append(acc, EntityChunk(v.doc_id, v.entity, sc))
                    ELSE acc
                F[n \in 0..Len(visited)] ==
                    IF n = 0 THEN <<>>
                    ELSE Add(F[n - 1], visited[n],
                             EntityScore(query_lower, query_words, visited[n].entity))
            IN  IF \E n \in 1..Len(visited) :
                       _score_entity(query_lower, query_words, visited[n].entity).raised
                THEN [raised |-> TRUE, chunks |-> <<>>]
                ELSE [raised |-> FALSE, chunks |-> F[Len(visited)]]
        On(query_lower) ==
            Collect(query_lower, ToSet(Split(query_lower)), VisitedEntities(ents, filt))
    IN  On(Lower(query))

(***************************************************************************)
(* Strategy 2: tree reasoning.  A tree node is                             *)
(* [title, node_id, summary, text, nodes]; a tree file is                  *)
(* [doc_name, doc_description, structure].                                 *)
(***************************************************************************)
HighScore == 95
MediumScore == 80
MaxNodeRefs == 3

\* only the root nodes lose their text
StripRootsOnly(nodes) ==
    [i \in 1..Len(nodes) |->
        [title |-> nodes[i].title, node_id |-> nodes[i].node_id,
         summary |-> nodes[i].summary, nodes |-> nodes[i].nodes]]

RECURSIVE _strip_tree_text(_)
\* a compact node without children carries no "nodes" key: nodes = <<>> here
_strip_tree_text(nodes) ==
    [i \in 1..Len(nodes) |->
        [title |-> nodes[i].title, node_id |-> nodes[i].node_id,
         summary |-> nodes[i].summary, nodes |-> _strip_tree_text(nodes[i].nodes)]]

RECURSIVE PreOrder(_)
\* the nodes of a forest in the order the depth-first search visits them
PreOrder(nodes) ==
    IF nodes = <<>> THEN <<>>
    ELSE <<Head(nodes)>> \o PreOrder(Head(nodes).nodes) \o PreOrder(Tail(nodes))

RECURSIVE _find_node_by_id(_, _)
\* depth-first search; <<>> is None, <<node>> the node found
_find_node_by_id(nodes, target_id) ==
    LET Or(found) == IF found # <<>> THEN found ELSE _find_node_by_id(Tail(nodes), target_id)
    IN  IF nodes = <<>> THEN <<>>
        ELSE IF Head(nodes).node_id = target_id THEN <<Head(nodes)>>
        ELSE Or(_find_node_by_id(Head(nodes).nodes, target_id))

\* a loaded tree file holds a JSON object; any other JSON value (an array, a
\* number, ...) is loaded all the same and has no method get
IsTreeObject(tree) == "structure" \in DOMAIN tree

\* "tree.get('structure', [])" raises AttributeError for a tree that passes
\* the filter and is not an object (line 324)
CompactRaises(trees, filt) ==
    \E n \in 1..Len(trees) : PassesFilter(filt, trees[n].key) /\ ~IsTreeObject(trees[n].val)

\* compact_trees: the documents passing the filter whose compact forest is not empty
CompactTrees(trees, filt) ==
    LET Add(acc, doc_id, tree, structure) ==
            IF structure = <<>> THEN acc
            ELSE Append(acc, [key |-> doc_id,
                              val |-> [description |-> tree.doc_description,
                                       structure |-> structure]])
        F[n \in 0..Len(trees)] ==
            IF n = 0 THEN <<>>
            ELSE IF ~PassesFilter(filt, trees[n].key) THEN F[n - 1]
                 ELSE Add(F[n - 1], trees[n].key, trees[n].val,
                          _strip_tree_text(trees[n].val.structure))
    IN  F[Len(trees)]

(***************************************************************************)
(* The external reasoning call.  A response is the text of the reply, in   *)
(* which a JSON document is written as a two-character name "@k" of an     *)
(* entry of JsonValues (JSON text holds no newline and no backtick), or    *)
(* the call raises.  A JSON value is [type |-> "list", items |-> ...] or   *)
(* [type |-> "object", items |-> <<>>]; a list item is a node reference    *)
(* [isobj |-> TRUE, doc_id, node_id, relevance] or a non-object.           *)
(***************************************************************************)
Ref(d, n, r) == [isobj |-> TRUE, doc_id |-> d, node_id |-> n, relevance |-> r]
Junk == [isobj |-> FALSE, doc_id |-> "", node_id |-> "", relevance |-> ""]
JsonList(items) == [type |-> "list", items |-> items]
JsonObject == [type |-> "object", items |-> <<>>]

\* the markdown fence of three backticks; a TLA+ string cannot hold a backtick,
\* so an apostrophe stands for it in every response text
Fence == "'''"

\* text.split("\n", 1)[1]
AfterFirstNewline(text) ==
    SubSeq(text, Least({i \in 1..Len(text) : CharAt(text, i) = "\n"}) + 1, Len(text))

\* text.rsplit("'''", 1)[0]
BeforeLastFence(text) ==
    SubSeq(text, 1, Greatest({i \in 1..(Len(text) - 2) : SubSeq(text, i, i + 2) = Fence}) - 1)

\* "Clean JSON from markdown fences"
StripFences(text0) ==
    LET Closing(t1) == Strip(IF IsSubstr(Fence, t1) THEN BeforeLastFence(t1) ELSE t1)
        Opening(text) ==
            IF StartsWith(text, Fence)
            THEN Closing(IF IsSubstr("\n", text) THEN AfterFirstNewline(text)
                         ELSE SubSeq(text, 4, Len(text)))
            ELSE text
    IN  Opening(Strip(text0))

\* json.loads: <<>> when it raises, <<value>> otherwise
JsonLoads(text, values) ==
    IF HasKey(values, text) THEN <<DictGet(values, text, JsonObject)>> ELSE <<>>

TreeChunk(doc_id, tree_name, node, relevance) ==
    [content |-> node.text,
     source |-> tree_name \o " - " \o node.title,
     metadata |-> [doc_id |-> doc_id, node_id |-> node.node_id,
                   source_type |-> "tree_reasoning"],
     score |-> (IF relevance = "high" THEN HighScore ELSE MediumScore) * Unit]

\* the loop "for node_ref in relevant_nodes[:3]" on a parsed list
NodeChunks(trees, items) ==
    LET Add(acc, ref, found) ==
            IF found # <<>> /\ found[1].text # ""
            THEN Append(acc, TreeChunk(ref.doc_id, DictGet(trees, ref.doc_id, <<>>).doc_name,
                                       found[1], ref.relevance))
            ELSE acc
        Find(ref) == IF HasKey(trees, ref.doc_id)
                     THEN _find_node_by_id(DictGet(trees, ref.doc_id, <<>>).structure,
                                           ref.node_id)
                     ELSE <<>>
        Over(refs) ==
            LET F[n \in 0..Len(refs)] ==
                    IF n = 0 THEN <<>> ELSE Add(F[n - 1], refs[n], Find(refs[n]))
            IN  F[Len(refs)]
    IN  Over(Take(items, MaxNodeRefs))

\* "tree.get('structure', [])" raises AttributeError when the reference names
\* a loaded tree that is not an object (line 380)
ResolveRaises(trees, ref) ==
    HasKey(trees, ref.doc_id) /\ ~IsTreeObject(DictGet(trees, ref.doc_id, <<>>))

\* _tree_retrieve from the reply onwards (lines 359-396), on the trees held
\* when the call resumes.  resp = [raises, text].
\* Result: [raised |-> an exception leaves _tree_retrieve, chunks |-> ...]
TreeAfterCall(trees, resp, values) ==
    LET On(parsed) ==
            IF parsed = <<>> THEN [raised |-> FALSE, chunks |-> <<>>]
            ELSE IF parsed[1].type # "list" THEN [raised |-> TRUE, chunks |-> <<>>]
            ELSE IF \E i \in 1..Len(Take(parsed[1].items, MaxNodeRefs)) :
                        \/ ~parsed[1].items[i].isobj
                        \/ ResolveRaises(trees, parsed[1].items[i])
                 THEN [raised |-> TRUE, chunks |-> <<>>]
                 ELSE [raised |-> FALSE, chunks |-> NodeChunks(trees, parsed[1].items)]
    IN  IF resp.raises THEN [raised |-> FALSE, chunks |-> <<>>]
        ELSE On(JsonLoads(StripFences(resp.text), values))

(***************************************************************************)
(* Fusion                                                                  *)
(***************************************************************************)
LegacyScaleNum == 7
LegacyScaleDen == 10
LegacyCap == 2
DupNum == 6
DupDen == 10

WordSet(chunk) == ToSet(Split(Lower(chunk.content)))

\* only chunks with the same words are duplicates
IsSameWords(a, b) ==
    LET Same(chunk_words, existing_words) ==
            chunk_words # {} /\ chunk_words = existing_words
    IN  Same(WordSet(a), WordSet(b))

\* overlap / max_len > 0.6 on two non-empty word sets
IsNearDuplicate(a, b) ==
    LET Near(chunk_words, existing_words) ==
            /\ chunk_words # {} /\ existing_words # {}
            /\ Cardinality(chunk_words \cap existing_words) * DupDen
                 > DupNum * Max(Cardinality(chunk_words), Cardinality(existing_words))
    IN  Near(WordSet(a), WordSet(b))

RECURSIVE DedupAdjacentFrom(_, _, _)
\* a chunk is compared only with the chunk just before it in the sorted list
DedupAdjacentFrom(sorted, i, result) ==
    IF i > Len(sorted) THEN result
    ELSE DedupAdjacentFrom(sorted, i + 1,
                           IF i > 1 /\ IsNearDuplicate(sorted[i], sorted[i - 1])
                           THEN result ELSE Append(result, sorted[i]))

RECURSIVE DedupFrom(_, _, _)
DedupFrom(sorted, i, result) ==
    IF i > Len(sorted) THEN result
    ELSE DedupFrom(sorted, i + 1,
                   IF \E j \in 1..Len(result) : IsNearDuplicate(sorted[i], result[j])
                   THEN result ELSE Append(result, sorted[i]))

\* the chunks are not sorted by score before the loop
DedupUnsorted(chunks) ==
    IF Len(chunks) <= 1 THEN chunks
    ELSE DedupFrom(chunks, 1, <<>>)

_deduplicate_chunks(chunks) ==
    IF Len(chunks) <= 1 THEN chunks
    ELSE DedupFrom(SortByScoreDesc(chunks), 1, <<>>)

\* "for chunk in legacy_result.chunks: if all_chunks: chunk.score *= 0.7;
\*  all_chunks.append(chunk)"
RECURSIVE AddLegacy(_, _, _)
AddLegacy(all_chunks, legacy_chunks, i) ==
    IF i > Len(legacy_chunks) THEN all_chunks
    ELSE AddLegacy(
            Append(all_chunks,
                   IF all_chunks # <<>>
                   THEN [legacy_chunks[i] EXCEPT
                            !.score = (@ * LegacyScaleNum) \div LegacyScaleDen]
                   ELSE legacy_chunks[i]),
            legacy_chunks, i + 1)

\* lines 172-191 of the enhanced retrieve: all_chunks holds the entity and tree chunks
Fuse(all_chunks, legacy_chunks, top_k) ==
    LET Result(merged, deduped) ==
            [candidates |-> merged, accepted |-> deduped,
             result |-> [chunks |-> Take(deduped, top_k), total_found |-> Len(deduped)]]
        Dedup(merged) == Result(merged, SortByScoreDesc(_deduplicate_chunks(merged)))
    IN  Dedup(AddLegacy(all_chunks, legacy_chunks, 1))

(***************************************************************************)
(* EnhancedRegulationsProvider: loading of the pre-computed indexes        *)
(***************************************************************************)
\* files = the *_tree.json files of INDEXED_DIR, each [doc_id, kind, tree]
_load_tree_indexes(trees, flag, dir) ==
    LET F[n \in 0..Len(dir.files)] ==
            IF n = 0 THEN trees
            ELSE IF dir.files[n].kind = "ok"
                 THEN DictSet(F[n - 1], dir.files[n].doc_id, dir.files[n].tree)
                 ELSE F[n - 1]
        Loaded(t) == [tree_indexes |-> t, has_trees |-> t # <<>>]
    IN  IF ~dir.exists THEN [tree_indexes |-> trees, has_trees |-> flag]
        ELSE Loaded(F[Len(dir.files)])

\* file = entities.json: [kind, data], data = doc_id -> list of entities
_load_entities(ents, flag, file) ==
    LET F[n \in 0..Len(file.data)] ==
            IF n = 0 THEN ents
            ELSE IF file.data[n].val # <<>>
                 THEN DictSet(F[n - 1], file.data[n].key, file.data[n].val)
                 ELSE F[n - 1]
        Loaded(e) == [entities |-> e, has_entities |-> e # <<>>]
    IN  IF file.kind = "missing" THEN [entities |-> ents, has_entities |-> flag]
        ELSE IF file.kind = "malformed" THEN [entities |-> ents, has_entities |-> ents # <<>>]
        ELSE Loaded(F[Len(file.data)])

\* the enhanced path is always taken
UseLegacyNever(trees_flag, entities_flag) == FALSE

\* line 154: "if not self._has_trees and not self._has_entities"
UseLegacyOnly(trees_flag, entities_flag) == ~trees_flag /\ ~entities_flag

\* _tree_retrieve reaches the external call (lines 318-334)
NeedsCall(trees, filt) ==
    trees # <<>> /\ ~CompactRaises(trees, filt) /\ CompactTrees(trees, filt) # <<>>

\* the chunks of the node references that precede the first unusable entry
TreeContributionPartial(trees, resp, values) ==
    LET Good(items) == {n \in 0..Len(items) : \A i \in 1..n : items[i].isobj}
        Of(items) == NodeChunks(trees, SubSeq(items, 1, Greatest(Good(items))))
        On(parsed) == Of(IF parsed = <<>> THEN <<>> ELSE parsed[1].items)
    IN  On(IF resp.raises THEN <<>> ELSE JsonLoads(StripFences(resp.text), values))

\* lines 164-170: what the tree strategy adds to all_chunks; an exception
\* leaving _tree_retrieve is caught and nothing is added
TreeContribution(trees, resp, values) ==
    LET Caught(tr) == IF tr.raised THEN <<>> ELSE tr.chunks
    IN  Caught(TreeAfterCall(trees, resp, values))

(***************************************************************************)
(* The inputs: on-disk snapshots, queries, filters, replies of the         *)
(* external reasoning capability                                           *)
(***************************************************************************)
MaxTopK == 3
MaxInits == 2
\* no document of the inputs has more chunks
MaxDocChunks == 3

DocA ==
    [id |-> "da", file_exists |-> TRUE, title |-> "Noi quy", description |-> "noi quy lao dong",
     keywords |-> <<"Phep", "LUONG">>, sections |-> <<[id |-> "s1", articles |-> <<11>>]>>,
     effective_date |-> "2024",
     content |-> "# Noi quy\n## Dieu 11 Phep nam\nphep nam a b\n### k\nc\n## Dieu 2 gio lam\ngio c d\n## Dieu 3\nx y\n"]

DocB ==
    [id |-> "db", file_exists |-> TRUE, title |-> "Quy che", description |-> "quy che",
     keywords |-> <<"gio">>, sections |-> <<>>, effective_date |-> "2023",
     content |-> "## g\nb c d\n"]

DocBGone == [DocB EXCEPT !.file_exists = FALSE]

Node3 == [title |-> "muc luc", node_id |-> "0003", summary |-> "s3", text |-> "", nodes |-> <<>>]
Node2 == [title |-> "g", node_id |-> "0002", summary |-> "s2", text |-> "## g b c a",
          nodes |-> <<>>]
Node1 == [title |-> "noi quy", node_id |-> "0001", summary |-> "s1", text |-> "g b c a",
          nodes |-> <<Node2, Node3>>]
TreeA == [doc_name |-> "Noi quy", doc_description |-> "noi quy lao dong",
          structure |-> <<Node1>>]

EntLeave ==
    [class |-> "LeaveRule", text |-> "phep nam a",
     attributes |-> <<[key |-> "rule_type", val |-> StrVal("annual_leave")],
                      [key |-> "duration", val |-> StrVal("12 Nam")]>>]
EntProbation ==
    [class |-> "LeaveRule", text |-> "thu viec chinh thuc",
     attributes |-> <<[key |-> "rule_type", val |-> StrVal("probation_leave")],
                      [key |-> "condition", val |-> StrVal("thu viec")],
                      [key |-> "chinh", val |-> StrVal("thuc")]>>]
\* "rule_type": null in entities.json
EntNullType ==
    [class |-> "Rule", text |-> "gio lam",
     attributes |-> <<[key |-> "rule_type", val |-> NullVal]>>]

DiskFull ==
    [index |-> [kind |-> "ok",
                query_mappings |-> <<[key |-> "phep nam", val |-> <<"da#s1">>],
                                     [key |-> "gio", val |-> <<"db", "dx#s9">>]>>,
                documents |-> <<DocA, DocB>>],
     indexed_dir |-> [exists |-> TRUE,
                      files |-> <<[doc_id |-> "da", kind |-> "ok", tree |-> TreeA]>>],
     entities_file |-> [kind |-> "ok",
                        data |-> <<[key |-> "da", val |-> <<EntLeave, EntProbation>>],
                                   [key |-> "dc", val |-> <<>>]>>]]

DiskLegacy ==
    [index |-> [kind |-> "ok",
                query_mappings |-> <<[key |-> "phep nam", val |-> <<"da#s1">>]>>,
                documents |-> <<DocA, DocBGone>>],
     indexed_dir |-> [exists |-> FALSE, files |-> <<>>],
     entities_file |-> [kind |-> "missing", data |-> <<>>]]

DiskBroken ==
    [index |-> [kind |-> "missing", query_mappings |-> <<>>, documents |-> <<>>],
     indexed_dir |-> [exists |-> TRUE,
                      files |-> <<[doc_id |-> "db", kind |-> "malformed", tree |-> TreeA]>>],
     entities_file |-> [kind |-> "ok", data |-> <<[key |-> "db", val |-> <<EntNullType>>]>>]]

Disks == {DiskFull, DiskLegacy, DiskBroken}

Queries == {"Phep nam", "b c", "zz", "Luong thu viec chinh thuc"}
Filters == {"", "da", "dx"}
TopKs == 0..MaxTopK

JsonValues ==
    << [key |-> "@1", val |-> JsonList(<<Ref("da", "0001", "high"), Ref("da", "0002", "medium")>>)],
       [key |-> "@2", val |-> JsonObject],
       [key |-> "@3", val |-> JsonList(<<Ref("da", "0001", "high"), Junk>>)],
       [key |-> "@4", val |-> JsonList(<<Ref("da", "0002", "medium"), Ref("da", "0003", "high"),
                                         Ref("dx", "0001", "high"), Junk>>)],
       [key |-> "@5", val |-> JsonList(<<>>)],
       [key |-> "@6", val |-> JsonList(<<Ref("db", "0001", "high"), Ref("da", "0002", "medium")>>)] >>

Reply(t) == [raises |-> FALSE, text |-> t]
CallRaises == [raises |-> TRUE, text |-> ""]

Responses ==
    {CallRaises, Reply("'''json\n@1\n'''"), Reply("@2"), Reply("'''@3'''"), Reply(" @4\n"),
     Reply("@5"), Reply("Ket qua: @1")}

\* the two iteration orders a set of these document ids can have
HashOrders == {<<"da", "db", "dx">>, <<"db", "da", "dx">>}

Calls == {"c1"}

(***************************************************************************)
(* State                                                                   *)
(***************************************************************************)
VARIABLES
    legacy,        \* RegulationsProvider: documents, query_mappings, all_keywords, status
    tree_indexes,  \* doc_id -> tree
    entities,      \* doc_id -> list of entities
    has_trees,
    has_entities,
    status,        \* EnhancedRegulationsProvider._status
    hash_order,    \* the process's iteration order of sets of document ids
    inits,         \* number of initialize calls so far
    loaded,        \* the disk snapshots read by initialize, oldest first
    calls,         \* the retrieve coroutines
    probe          \* a function of the provider applied on its own: arguments and values

vars == <<legacy, tree_indexes, entities, has_trees, has_entities, status,
          hash_order, inits, loaded, calls, probe>>

NoResult == [chunks |-> <<>>, total_found |-> 0]

IdleCall ==
    [pc |-> "idle", query |-> "", top_k |-> 0, filt |-> "", path |-> "",
     llm_called |-> FALSE, resp |-> CallRaises,
     entity_chunks |-> <<>>, tree_chunks |-> <<>>, legacy_chunks |-> <<>>,
     candidates |-> <<>>, accepted |-> <<>>,
     started_at |-> 0, finished_at |-> 0, outcome |-> "", result |-> NoResult]

\* no function is applied on its own
NoProbe == [op |-> "none"]

\* RegulationsProvider.__init__
EmptyLegacy ==
    [documents |-> <<>>, query_mappings |-> <<>>, all_keywords |-> <<>>,
     status |-> "unavailable"]

Init ==
    /\ legacy = EmptyLegacy
    /\ tree_indexes = <<>>
    /\ entities = <<>>
    /\ has_trees = FALSE
    /\ has_entities = FALSE
    /\ status = "unavailable"
    /\ hash_order \in HashOrders
    /\ inits = 0
    /\ loaded = <<>>
    /\ calls = [c \in Calls |-> IdleCall]
    /\ probe = NoProbe

\* RegulationsProvider.retrieve on the current legacy indexes
LegacyRetrieve(query, top_k, filt) ==
    LegacyRetrieveOn(legacy.documents, legacy.query_mappings, legacy.all_keywords,
                     hash_order, query, top_k, filt)

\* all_chunks kept on the provider instead of in the call: the entity chunks
\* of another call suspended on the external call are fused into the result too
EnhancedFinishShared(call, tree_chunks) ==
    LET Done(lg, fu) ==
            [call EXCEPT !.pc = "done", !.outcome = "returned", !.finished_at = inits,
                         !.tree_chunks = tree_chunks, !.legacy_chunks = lg,
                         !.candidates = fu.candidates, !.accepted = fu.accepted,
                         !.result = fu.result]
        Shared(others) ==
            IF others = {} THEN call.entity_chunks
            ELSE calls[CHOOSE c \in others : TRUE].entity_chunks \o call.entity_chunks
        With(lg, all_chunks) == Done(lg, Fuse(all_chunks \o tree_chunks, lg, call.top_k))
    IN  With(LegacyRetrieve(call.query, LegacyCap, call.filt).chunks,
             Shared({c \in DOMAIN calls : /\ calls[c].pc = "awaiting"
                                          /\ calls[c].entity_chunks # call.entity_chunks}))

\* lines 172-191 on the current indexes: the record of the finished call
EnhancedFinish(call, tree_chunks) ==
    LET Done(lg, fu) ==
            [call EXCEPT !.pc = "done", !.outcome = "returned", !.finished_at = inits,
                         !.tree_chunks = tree_chunks, !.legacy_chunks = lg,
                         !.candidates = fu.candidates, !.accepted = fu.accepted,
                         !.result = fu.result]
        With(lg) == Done(lg, Fuse(call.entity_chunks \o tree_chunks, lg, call.top_k))
    IN  With(LegacyRetrieve(call.query, LegacyCap, call.filt).chunks)

\* the sum over _count_nodes(t.get("structure", [])) raises AttributeError for
\* a loaded tree that is not an object (lines 91-97)
CountRaises(trees, flag) ==
    flag /\ \E n \in 1..Len(trees) : ~IsTreeObject(trees[n].val)

\* EnhancedRegulationsProvider.initialize reading the snapshot d
Initialize(d) ==
    LET Load(lr, tr, er) ==
            /\ legacy' = lr.leg
            /\ IF lr.raised
               THEN UNCHANGED <<tree_indexes, entities, has_trees, has_entities, status>>
               ELSE /\ tree_indexes' = tr.tree_indexes
                    /\ has_trees' = tr.has_trees
                    /\ entities' = er.entities
                    /\ has_entities' = er.has_entities
                    /\ status' = IF CountRaises(tr.tree_indexes, tr.has_trees)
                                 THEN status ELSE lr.leg.status
    IN  /\ inits < MaxInits
        /\ Load(LegacyInitialize(legacy, d.index),
                _load_tree_indexes(tree_indexes, has_trees, d.indexed_dir),
                _load_entities(entities, has_entities, d.entities_file))
        /\ inits' = inits + 1
        /\ loaded' = Append(loaded, d)
        /\ UNCHANGED <<hash_order, calls, probe>>

\* retrieve from its entry to its first suspension or to its end
Start(c, q, k, f) ==
    LET base == [IdleCall EXCEPT !.query = q, !.top_k = k, !.filt = f,
                                 !.started_at = inits, !.finished_at = inits]
        Enhanced(ent, entered) ==
            IF ent.raised
            THEN [entered EXCEPT !.pc = "done", !.outcome = "raised"]
            ELSE IF has_trees /\ NeedsCall(tree_indexes, f)
            THEN [entered EXCEPT !.pc = "awaiting", !.llm_called = TRUE]
            ELSE EnhancedFinish(entered, <<>>)
        Lookup(ent) ==
            Enhanced(ent, [base EXCEPT !.path = "enhanced", !.entity_chunks = ent.chunks])
    IN  /\ calls[c].pc = "idle"
        /\ calls' = [calls EXCEPT ![c] =
              IF UseLegacyOnly(has_trees, has_entities)
              THEN [base EXCEPT !.pc = "done", !.path = "legacy", !.outcome = "returned",
                                !.result = LegacyRetrieve(q, k, f)]
              ELSE Lookup(IF has_entities THEN _entity_lookup(entities, q, f)
                          ELSE [raised |-> FALSE, chunks |-> <<>>])]
        /\ UNCHANGED <<legacy, tree_indexes, entities, has_trees, has_entities, status,
                       hash_order, inits, loaded, probe>>

\* retrieve resumes with the reply r of the external reasoning call
Complete(c, r) ==
    /\ calls[c].pc = "awaiting"
    /\ calls' = [calls EXCEPT ![c] =
          EnhancedFinish([calls[c] EXCEPT !.resp = r],
                         TreeContribution(tree_indexes, r, JsonValues))]
    /\ UNCHANGED <<legacy, tree_indexes, entities, has_trees, has_entities, status,
                   hash_order, inits, loaded, probe>>

Next ==
    \/ \E d \in Disks : Initialize(d)
    \/ \E c \in Calls, q \in Queries, k \in TopKs, f \in Filters : Start(c, q, k, f)
    \/ \E c \in Calls, r \in Responses : Complete(c, r)

Spec == Init /\ [][Next]_vars

(***************************************************************************)
(* The functions of the providers applied on their own, to arguments drawn *)
(* from bounded sets.  probe holds the arguments and the values returned.  *)
(***************************************************************************)
MaxChunks == 3

\* a KnowledgeChunk with the given content and score (in hundredths)
PoolChunk(name, content, score) ==
    [content |-> content, source |-> name, metadata |-> [doc_id |-> "da"],
     score |-> score * Unit]

\* x, y and z overlap pairwise by 4/5, 4/5 and 3/5 of their words; v has the
\* words of x in another case and layout; w has no word at all
ChunkPool ==
    {PoolChunk("x", "a b c d e", 95), PoolChunk("y", "a b c d f", 80),
     PoolChunk("z", "a b c e g", 80), PoolChunk("v", "A B  c d\nE", 95),
     PoolChunk("w", " ", 50)}

ChunkLists == {<<>>} \cup UNION {[1..n -> ChunkPool] : n \in 1..MaxChunks}

DedupProbes ==
    {[op |-> "dedup", step |-> 0, chunks |-> l, once |-> <<>>, twice |-> <<>>] :
        l \in ChunkLists}

\* document texts: sections only, a title line first, text before the first
\* section, a blank first line, a title line inside a section, no section
DocTexts ==
    {"## a\nx\n## b\ny", "# T\n## a\nx\n## b", "p\n## a\nx", "\n## a\nx",
     "## a\n# T\ny\n### k\n", "x\ny", "# T",
     "##  a \n# T\n ### k \n\n## b\n", "# T\n \n## \nx\n## b \n"}

ParseProbes ==
    {[op |-> "parse", step |-> 0, text |-> t, chunks |-> <<>>] : t \in DocTexts}

\* chunks as _parse_chunks builds them: two with the query "phep nam" in title
\* and content (equal signals), one without any word of it, one with half
ScoreChunks ==
    {[title |-> "Dieu 2 phep nam", content |-> "## Dieu 2 phep nam\nphep nam"],
     [title |-> "Phep  Nam", content |-> "x\nPHEP NAM y"],
     [title |-> "Dieu 1 nghi", content |-> "## Dieu 1 nghi\nviec"],
     [title |-> "phep", content |-> "nam z"]}

ScoreQueries == {"phep nam", "nam"}

ScoreProbes ==
    {[op |-> "score", step |-> 0, query |-> q, inside |-> a, outside |-> b,
      is_mapped |-> m, has_keyword |-> k, inside_score |-> 0, outside_score |-> 0] :
        q \in ScoreQueries, a \in ScoreChunks, b \in ScoreChunks,
        m \in BOOLEAN, k \in BOOLEAN}

MaxRefs == 2

\* references as index.json writes them, with the document and the section
\* each one names ("" for no section)
RefPool ==
    {[ref |-> "da#s1", doc |-> "da", sec |-> "s1"],
     [ref |-> "da#s2", doc |-> "da", sec |-> "s2"],
     [ref |-> "da", doc |-> "da", sec |-> ""],
     [ref |-> "db#", doc |-> "db", sec |-> ""]}

RefLists == UNION {[1..n -> RefPool] : n \in 0..MaxRefs}

\* query_mappings with two curated phrases, one a part of the other
MappingTables ==
    {<<[key |-> "phep nam", val |-> l1], [key |-> "nam", val |-> l2]>> :
        l1 \in RefLists, l2 \in RefLists}

MappedQueries == {"phep nam", "nam gio", "gio"}

\* the mappings as _get_mapped_sections reads them: phrase -> list of strings
RefStrings(table) ==
    [m \in 1..Len(table) |->
        [key |-> table[m].key,
         val |-> [r \in 1..Len(table[m].val) |-> table[m].val[r].ref]]]

MappedProbes ==
    {[op |-> "mapped", step |-> 0, table |-> t, query |-> q, matched |-> <<>>] :
        t \in MappingTables, q \in MappedQueries}

\* entities whose text and attributes share no word with the queries below
\* (their score is the rule-type bonus alone), an entity that shares words
\* with them in its text only, and the entities of the index files
EntityPool ==
    {[class |-> "Rule", text |-> "x",
      attributes |-> <<[key |-> "rule_type", val |-> StrVal("probation")]>>],
     [class |-> "Rule", text |-> "y",
      attributes |-> <<[key |-> "rule_type", val |-> StrVal("Probation_Leave")]>>],
     [class |-> "Rule", text |-> "x",
      attributes |-> <<[key |-> "rule_type", val |-> StrVal("annual_leave")]>>],
     [class |-> "Rule", text |-> "x", attributes |-> <<>>],
     [class |-> "Rule", text |-> "zz Phep",
      attributes |-> <<[key |-> "rule_type", val |-> StrVal("other")]>>],
     EntLeave, EntProbation}

EntityQueries == {"thu viec chinh thuc", "sau thu viec", "phep", "zz", "Phep nam"}

EntityProbes ==
    {[op |-> "entity", step |-> 0, query |-> q, entity |-> e, score |-> 0,
      found |-> <<>>] :
        q \in EntityQueries, e \in EntityPool}

\* forests as the tree builder writes them: node ids "0000", "0001", ... in
\* document order, children nested up to three levels, several roots
TreeNode(title, node_id, summary, text, nodes) ==
    [title |-> title, node_id |-> node_id, summary |-> summary, text |-> text,
     nodes |-> nodes]

ForestDeep ==
    <<TreeNode("a", "0000", "sa", "# a\nx", <<
          TreeNode("b", "0001", "sb", "## b\ny", <<
              TreeNode("c", "0002", "sc", "### c\nz", <<>>),
              TreeNode("d", "0003", "", "### d", <<>>)>>),
          TreeNode("e", "0004", "se", "## e", <<>>)>>),
      TreeNode("f", "0005", "sf", "# f\nw", <<
          TreeNode("c", "0006", "sc", "### c\nz", <<>>)>>)>>

Forests ==
    {<<>>, <<Node1>>, <<TreeNode("g", "0000", "sg", "# g", <<>>)>>, <<Node2, Node3>>,
     ForestDeep}

TreeProbes ==
    {[op |-> "tree", step |-> 0, forest |-> f, compact |-> <<>>, target_id |-> "",
      found |-> <<>>] : f \in Forests}

(***************************************************************************)
(* Tree builder: pageindex_adapter._parse_markdown_structure and           *)
(* _build_hierarchy.  A flat node is                                       *)
(* [title, level, line_start, line_end, text]; a tree node is              *)
(* [title, node_id, summary, start_index, end_index, text, nodes].         *)
(***************************************************************************)
MaxHashes == 6
IdWidth == 4

\* the number of "#" characters a line starts with
LeadingHashes(line) ==
    Cardinality({n \in 1..Len(line) : \A i \in 1..n : CharAt(line, i) = "#"})

\* re.match(r'^(#{1,6})\s+(.+)$', line): one to six "#", at least one
\* whitespace character, at least one more character
IsHeader(line) ==
    LET Match(n) == /\ n >= 1 /\ n <= MaxHashes
                    /\ Len(line) >= n + 2
                    /\ CharAt(line, n + 1) \in Whitespace
    IN  Match(LeadingHashes(line))

\* header_match.group(2).strip()
HeaderTitle(line) == Strip(SubSeq(line, LeadingHashes(line) + 1, Len(line)))

\* "current_node['line_end'] = ...; current_node['text'] = ...;
\*  nodes.append(current_node)" with last = the 0-based index of the node's
\* last line
CloseNode(nodes, current_node, lines, last) ==
    IF current_node = <<>> THEN nodes
    ELSE Append(nodes,
                [current_node[1] EXCEPT
                    !.line_end = last,
                    !.text = Strip(Join(SubSeq(lines, current_node[1].line_start + 1,
                                               last + 1), "\n"))])

_parse_markdown_structure(content) ==
    LET Over(lines) ==
            LET F[n \in 0..Len(lines)] ==
                    IF n = 0 THEN [nodes |-> <<>>, current_node |-> <<>>]
                    ELSE IF IsHeader(lines[n])
                         THEN [nodes |-> CloseNode(F[n - 1].nodes, F[n - 1].current_node,
                                                   lines, n - 2),
                               current_node |->
                                   <<[title |-> HeaderTitle(lines[n]),
                                      level |-> LeadingHashes(lines[n]),
                                      line_start |-> n - 1, line_end |-> n - 1,
                                      text |-> ""]>>]
                         ELSE F[n - 1]
            IN  CloseNode(F[Len(lines)].nodes, F[Len(lines)].current_node, lines,
                          Len(lines) - 1)
    IN  Over(SplitOn(content, "\n"))

\* f"{i:04d}"
NodeId(i) ==
    LET Pad(s) == IF Len(s) >= IdWidth THEN s ELSE SubSeq("0000", 1, IdWidth - Len(s)) \o s
    IN  Pad(ToString(i))

RECURSIVE ChildrenAt(_, _)
\* the list of children reached from the root list along a path of positions
ChildrenAt(nodes, path) ==
    IF path = <<>> THEN nodes ELSE ChildrenAt(nodes[path[1]].nodes, Tail(path))

RECURSIVE AppendAt(_, _, _)
\* "stack[-1][1]['nodes'].append(tree_node)" (path of the stack top), or
\* "root_nodes.append(tree_node)" (empty path)
AppendAt(nodes, path, tree_node) ==
    IF path = <<>> THEN Append(nodes, tree_node)
    ELSE [nodes EXCEPT ![path[1]].nodes = AppendAt(@, Tail(path), tree_node)]

RECURSIVE PopStackStrict(_, _)
\* the stack keeps an entry of the same level
PopStackStrict(stack, level) ==
    IF stack # <<>> /\ stack[Len(stack)].level > level
    THEN PopStackStrict(SubSeq(stack, 1, Len(stack) - 1), level)
    ELSE stack

RECURSIVE PopStack(_, _)
\* "while stack and stack[-1][0] >= level: stack.pop()"
PopStack(stack, level) ==
    IF stack # <<>> /\ stack[Len(stack)].level >= level
    THEN PopStack(SubSeq(stack, 1, Len(stack) - 1), level)
    ELSE stack

\* equal levels are nested
BuildHierarchyPopStrict(flat_nodes) ==
    LET Place(root_nodes, stack, level, tree_node) ==
            LET parent == IF stack = <<>> THEN <<>> ELSE stack[Len(stack)].path
            IN  [root_nodes |-> AppendAt(root_nodes, parent, tree_node),
                 stack |-> Append(stack,
                                  [level |-> level,
                                   path |-> Append(parent,
                                                   Len(ChildrenAt(root_nodes, parent)) + 1)])]
        F[n \in 0..Len(flat_nodes)] ==
            IF n = 0 THEN [root_nodes |-> <<>>, stack |-> <<>>]
            ELSE Place(F[n - 1].root_nodes, PopStackStrict(F[n - 1].stack, flat_nodes[n].level),
                       flat_nodes[n].level,
                       [title |-> flat_nodes[n].title, node_id |-> NodeId(n - 1),
                        summary |-> "", start_index |-> flat_nodes[n].line_start,
                        end_index |-> flat_nodes[n].line_end,
                        text |-> flat_nodes[n].text, nodes |-> <<>>])
    IN  F[Len(flat_nodes)].root_nodes

\* the stack holds, for each open node, its level and its place in the
\* forest (the positions from the root list down to the node)
_build_hierarchy(flat_nodes) ==
    LET Place(root_nodes, stack, level, tree_node) ==
            LET parent == IF stack = <<>> THEN <<>> ELSE stack[Len(stack)].path
            IN  [root_nodes |-> AppendAt(root_nodes, parent, tree_node),
                 stack |-> Append(stack,
                                  [level |-> level,
                                   path |-> Append(parent,
                                                   Len(ChildrenAt(root_nodes, parent)) + 1)])]
        F[n \in 0..Len(flat_nodes)] ==
            IF n = 0 THEN [root_nodes |-> <<>>, stack |-> <<>>]
            ELSE Place(F[n - 1].root_nodes, PopStack(F[n - 1].stack, flat_nodes[n].level),
                       flat_nodes[n].level,
                       [title |-> flat_nodes[n].title, node_id |-> NodeId(n - 1),
                        summary |-> "", start_index |-> flat_nodes[n].line_start,
                        end_index |-> flat_nodes[n].line_end,
                        text |-> flat_nodes[n].text, nodes |-> <<>>])
    IN  F[Len(flat_nodes)].root_nodes

MaxHeadings == 4
MaxLevel == 3

\* the level sequences of up to MaxHeadings headings
LevelSeqs == UNION {[1..n -> 1..MaxLevel] : n \in 0..MaxHeadings}

\* a document with one heading per level of the sequence, each followed by a
\* line of text
HeadingDoc(levels) ==
    Join([k \in 1..Len(levels) |->
             SubSeq("######", 1, levels[k]) \o " h" \o ToString(k) \o "\nt" \o ToString(k)],
         "\n")

\* text before the first heading, a heading of level 6, lines that are no
\* headings (seven "#", no blank after "#", nothing after the blank), a
\* heading whose title is blank, a tab after the "#"
MarkdownTexts ==
    {HeadingDoc(l) : l \in LevelSeqs}
    \cup {"intro\n## a\n####### x\n#b\n# \n#  \n###### f \nz\n#\tg\n", "no heading\n"}

BuildProbes ==
    {[op |-> "build", step |-> 0, content |-> t, flat |-> <<>>, forest |-> <<>>] :
        t \in MarkdownTexts}

Probes == DedupProbes \cup ParseProbes \cup ScoreProbes \cup MappedProbes \cup EntityProbes
            \cup TreeProbes \cup BuildProbes

ApplyInit ==
    /\ legacy = EmptyLegacy
    /\ tree_indexes = <<>>
    /\ entities = <<>>
    /\ has_trees = FALSE
    /\ has_entities = FALSE
    /\ status = "unavailable"
    /\ hash_order \in HashOrders
    /\ inits = 0
    /\ loaded = <<>>
    /\ calls = [c \in Calls |-> IdleCall]
    /\ probe \in Probes

\* the provider itself takes no step
ProviderIdle ==
    UNCHANGED <<legacy, tree_indexes, entities, has_trees, has_entities, status,
                hash_order, inits, loaded, calls>>

\* _deduplicate_chunks(chunks)
ApplyDedup ==
    /\ probe.op = "dedup" /\ probe.step = 0
    /\ probe' = [probe EXCEPT !.step = 1, !.once = _deduplicate_chunks(probe.chunks)]
    /\ ProviderIdle

\* _deduplicate_chunks on the list it returned
ApplyDedupAgain ==
    /\ probe.op = "dedup" /\ probe.step = 1
    /\ probe' = [probe EXCEPT !.step = 2, !.twice = _deduplicate_chunks(probe.once)]
    /\ ProviderIdle

\* _parse_chunks(content, doc_id)
ApplyParse ==
    /\ probe.op = "parse" /\ probe.step = 0
    /\ probe' = [probe EXCEPT !.step = 1, !.chunks = _parse_chunks(probe.text, "dp")]
    /\ ProviderIdle

\* _calculate_relevance_score for a chunk in a target section and for a chunk
\* in none, with the same query and document-level flags
ApplyScore ==
    /\ probe.op = "score" /\ probe.step = 0
    /\ probe' = [probe EXCEPT
          !.step = 1,
          !.inside_score = _calculate_relevance_score(probe.query, probe.inside,
                               probe.is_mapped, probe.has_keyword, TRUE),
          !.outside_score = _calculate_relevance_score(probe.query, probe.outside,
                               probe.is_mapped, probe.has_keyword, FALSE)]
    /\ ProviderIdle

\* _get_mapped_sections(query)
ApplyMapped ==
    /\ probe.op = "mapped" /\ probe.step = 0
    /\ probe' = [probe EXCEPT
          !.step = 1,
          !.matched = _get_mapped_sections(RefStrings(probe.table), probe.query)]
    /\ ProviderIdle

\* _score_entity(query_lower, query_words, entity) as _entity_lookup calls it
ApplyScoreEntity ==
    /\ probe.op = "entity" /\ probe.step = 0
    /\ probe' = [probe EXCEPT
          !.step = 1,
          !.score = _score_entity(Lower(probe.query), ToSet(Split(Lower(probe.query))),
                                  probe.entity).score]
    /\ ProviderIdle

\* _entity_lookup(query, None) on an index holding the entity alone
ApplyLookup ==
    /\ probe.op = "entity" /\ probe.step = 1
    /\ probe' = [probe EXCEPT
          !.step = 2,
          !.found = _entity_lookup(<<[key |-> "da", val |-> <<probe.entity>>]>>,
                                   probe.query, "").chunks]
    /\ ProviderIdle

\* compact = _strip_tree_text(tree.get("structure", [])) (line 324)
ApplyStrip ==
    /\ probe.op = "tree" /\ probe.step = 0
    /\ probe' = [probe EXCEPT !.step = 1, !.compact = _strip_tree_text(probe.forest)]
    /\ ProviderIdle

\* _find_node_by_id(structure, node_id) for a node id read in the compact
\* view, or for an id that no node of the pool has (line 380)
ApplyFind ==
    /\ probe.op = "tree" /\ probe.step = 1
    /\ \E id \in {PreOrder(probe.compact)[i].node_id : i \in 1..Len(PreOrder(probe.compact))}
                   \cup {"9999", ""} :
          probe' = [probe EXCEPT !.step = 2, !.target_id = id,
                                 !.found = _find_node_by_id(probe.forest, id)]
    /\ ProviderIdle

\* flat_nodes = _parse_markdown_structure(content) (build_tree_with_gemini)
ApplyParseMarkdown ==
    /\ probe.op = "build" /\ probe.step = 0
    /\ probe' = [probe EXCEPT !.step = 1, !.flat = _parse_markdown_structure(probe.content)]
    /\ ProviderIdle

\* tree_structure = _build_hierarchy(flat_nodes) (build_tree_with_gemini)
ApplyBuildHierarchy ==
    /\ probe.op = "build" /\ probe.step = 1
    /\ probe' = [probe EXCEPT !.step = 2, !.forest = _build_hierarchy(probe.flat)]
    /\ ProviderIdle

ApplyNext ==
    \/ ApplyDedup
    \/ ApplyDedupAgain
    \/ ApplyParse
    \/ ApplyScore
    \/ ApplyMapped
    \/ ApplyScoreEntity
    \/ ApplyLookup
    \/ ApplyStrip
    \/ ApplyFind
    \/ ApplyParseMarkdown
    \/ ApplyBuildHierarchy

ApplySpec == ApplyInit /\ [][ApplyNext]_vars

(***************************************************************************)
(* Two retrieve coroutines on one provider, interleaved at the external    *)
(* reasoning call                                                          *)
(***************************************************************************)
TwoCalls == {"c1", "c2"}

ConcurrentQueries == {"Phep nam", "b c"}
ConcurrentFilters == {"", "da"}
ConcurrentTopKs == {MaxTopK - 1}
ConcurrentResponses == {CallRaises, Reply("'''json\n@1\n'''"), Reply(" @4\n")}

ConcurrentInit ==
    /\ legacy = EmptyLegacy
    /\ tree_indexes = <<>>
    /\ entities = <<>>
    /\ has_trees = FALSE
    /\ has_entities = FALSE
    /\ status = "unavailable"
    /\ hash_order \in HashOrders
    /\ inits = 0
    /\ loaded = <<>>
    /\ calls = [c \in TwoCalls |-> IdleCall]
    /\ probe = NoProbe

ConcurrentNext ==
    \/ Initialize(DiskFull)
    \/ \E c \in TwoCalls, q \in ConcurrentQueries, k \in ConcurrentTopKs,
          f \in ConcurrentFilters : Start(c, q, k, f)
    \/ \E c \in TwoCalls, r \in ConcurrentResponses : Complete(c, r)

ConcurrentSpec == ConcurrentInit /\ [][ConcurrentNext]_vars


(***************************************************************************)
(* One retrieve coroutine on a provider that is initialized again from     *)
(* changing disk snapshots: two tree files, a tree file that holds no JSON *)
(* object, documents and trees that change between two snapshots           *)
(***************************************************************************)
NodeB1 == [title |-> "gio lam", node_id |-> "0001", summary |-> "sb",
           text |-> "gio lam viec tam tieng", nodes |-> <<>>]
TreeB == [doc_name |-> "Quy che", doc_description |-> "quy che",
          structure |-> <<NodeB1>>]

\* indexed/db_tree.json holding the JSON text "[]"
TreeFileArray == JsonList(<<>>)

DiskRich ==
    [index |-> DiskFull.index,
     indexed_dir |-> [exists |-> TRUE,
                      files |-> <<[doc_id |-> "da", kind |-> "ok", tree |-> TreeA],
                                  [doc_id |-> "db", kind |-> "ok", tree |-> TreeB]>>],
     entities_file |-> DiskFull.entities_file]

DiskArrayTree ==
    [index |-> DiskLegacy.index,
     indexed_dir |-> [exists |-> TRUE,
                      files |-> <<[doc_id |-> "da", kind |-> "ok", tree |-> TreeA],
                                  [doc_id |-> "db", kind |-> "ok", tree |-> TreeFileArray],
                                  [doc_id |-> "dc", kind |-> "malformed", tree |-> TreeA]>>],
     entities_file |-> [kind |-> "malformed", data |-> <<>>]]

\* the chunk of the mapped section (article 1) shares no word with the query
\* "phep nam"; the chunk of article 2 holds the query in its title and content
DocX ==
    [id |-> "dx", file_exists |-> TRUE, title |-> "Quy dinh", description |-> "quy dinh",
     keywords |-> <<>>, sections |-> <<[id |-> "s1", articles |-> <<1>>]>>,
     effective_date |-> "2025",
     content |-> "## Dieu 1 nghi\nviec\n## Dieu 2 phep nam\nphep nam\n## Dieu 3 phep\nx\n"]

DiskRank ==
    [index |-> [kind |-> "ok",
                query_mappings |-> <<[key |-> "phep nam", val |-> <<"dx#s1">>]>>,
                documents |-> <<DocX>>],
     indexed_dir |-> [exists |-> FALSE, files |-> <<>>],
     entities_file |-> [kind |-> "missing", data |-> <<>>]]

\* indexed/da_tree.json rebuilt: node 0001 has a new text and no child nodes
TreeANext ==
    [doc_name |-> "Noi quy", doc_description |-> "noi quy lao dong",
     structure |-> <<[Node1 EXCEPT !.text = "noi quy moi", !.nodes = <<>>]>>]

DiskNext ==
    [index |-> DiskFull.index,
     indexed_dir |-> [exists |-> TRUE,
                      files |-> <<[doc_id |-> "da", kind |-> "ok", tree |-> TreeANext]>>],
     entities_file |-> DiskFull.entities_file]

\* two documents and the curated mappings, no tree file, no entities
DiskPlain ==
    [index |-> DiskFull.index,
     indexed_dir |-> [exists |-> FALSE, files |-> <<>>],
     entities_file |-> [kind |-> "missing", data |-> <<>>]]

ReloadDisks == {DiskRich, DiskArrayTree, DiskRank, DiskNext, DiskPlain}
ReloadQueries == {"Phep nam", "gio lam", "b c"}
ReloadFilters == {"", "da"}
ReloadTopKs == {MaxTopK}
ReloadResponses == {CallRaises, Reply("@1"), Reply("@6")}

ReloadNext ==
    \/ \E d \in ReloadDisks : Initialize(d)
    \/ \E c \in Calls, q \in ReloadQueries, k \in ReloadTopKs, f \in ReloadFilters :
          Start(c, q, k, f)
    \/ \E c \in Calls, r \in ReloadResponses : Complete(c, r)

ReloadSpec == Init /\ [][ReloadNext]_vars

(***************************************************************************)
(* Properties                                                              *)
(***************************************************************************)
\* a call that has finished with no initialize since it was started
Settled(c) ==
    calls[c].pc = "done" /\ calls[c].started_at = inits /\ calls[c].finished_at = inits

\* C1: an exception raised inside one of the three strategies is caught inside
\* retrieve: every finished retrieve has returned a result, none has raised to
\* its caller
C1_RetrieveNeverRaises ==
    \A c \in Calls : calls[c].pc = "done" => calls[c].outcome = "returned"

\* the reply of the external call is unusable: the call raised, the text left
\* after stripping the fences is not JSON, the JSON is not an array, or one of
\* the entries the loop reads is not a node reference
ReplyUnusable(resp) ==
    \/ resp.raises
    \/ LET parsed == JsonLoads(StripFences(resp.text), JsonValues)
       IN  \/ parsed = <<>>
           \/ parsed[1].type # "list"
           \/ \E i \in 1..Min(MaxNodeRefs, Len(parsed[1].items)) : ~parsed[1].items[i].isobj

\* C2: when the external call raises or its reply is not the expected JSON
\* array, the tree strategy contributes no chunk at all and retrieve returns,
\* without raising, exactly the fusion of the entity chunks with the keyword
\* strategy's chunks
C2_UnusableReplyContributesNothing ==
    \A c \in Calls :
        (calls[c].pc = "done" /\ calls[c].llm_called /\ calls[c].finished_at = inits
            /\ ReplyUnusable(calls[c].resp))
        => /\ calls[c].outcome = "returned"
           /\ calls[c].tree_chunks = <<>>
           /\ calls[c].result =
                Fuse(calls[c].entity_chunks,
                     LegacyRetrieve(calls[c].query, LegacyCap, calls[c].filt).chunks,
                     calls[c].top_k).result

\* C2 happens: a reply that parses to an array whose second entry is not a node
\* reference; the entity and keyword chunks are still returned
C2_Witness ==
    \E c \in Calls :
        /\ calls[c].pc = "done" /\ calls[c].llm_called /\ calls[c].finished_at = inits
        /\ ~calls[c].resp.raises
        /\ JsonLoads(StripFences(calls[c].resp.text), JsonValues) # <<>>
        /\ ReplyUnusable(calls[c].resp)
        /\ calls[c].entity_chunks # <<>>
        /\ Len(calls[c].result.chunks) >= 2

\* a provider constructed anew and initialized once from the snapshot d
Reloaded(d) ==
    [legacy |-> LegacyInitialize(EmptyLegacy, d.index).leg,
     trees |-> _load_tree_indexes(<<>>, FALSE, d.indexed_dir),
     ents |-> _load_entities(<<>>, FALSE, d.entities_file)]

\* C3: after any sequence of initialize calls the in-memory indexes (documents
\* with their chunks, keyword index, trees, entities, the two flags) are
\* exactly those that the inputs of the most recent initialize give
C3_IndexesReflectLatestInitialize ==
    inits > 0 =>
        LET r == Reloaded(loaded[Len(loaded)])
            KeywordIndex(kw) == {[key |-> kw[i].key, val |-> ToSet(kw[i].val)] : i \in 1..Len(kw)}
        IN  /\ ToSet(legacy.documents) = ToSet(r.legacy.documents)
            /\ KeywordIndex(legacy.all_keywords) = KeywordIndex(r.legacy.all_keywords)
            /\ ToSet(tree_indexes) = ToSet(r.trees.tree_indexes)
            /\ ToSet(entities) = ToSet(r.ents.entities)
            /\ has_trees = r.trees.has_trees
            /\ has_entities = r.ents.has_entities

\* C4: on both paths a returned result holds at most top_k chunks, and
\* total_found is at least the number of chunks returned
C4_ResultSizeBounds ==
    \A c \in Calls :
        (calls[c].pc = "done" /\ calls[c].outcome = "returned")
        => /\ Len(calls[c].result.chunks) <= calls[c].top_k
           /\ calls[c].result.total_found >= Len(calls[c].result.chunks)

\* C4 happens: an enhanced retrieve that accepted more chunks than the top_k >= 1
\* it returns
C4_Witness ==
    \E c \in Calls :
        /\ calls[c].pc = "done" /\ calls[c].path = "enhanced"
        /\ calls[c].top_k >= 1
        /\ Len(calls[c].result.chunks) = calls[c].top_k
        /\ calls[c].result.total_found > calls[c].top_k

\* C5: the chunks of every returned result are in non-increasing order of their
\* final score (for a keyword chunk on the enhanced path, the scaled score)
C5_ResultOrdered ==
    \A c \in Calls :
        (calls[c].pc = "done" /\ calls[c].outcome = "returned")
        => \A i \in 1..(Len(calls[c].result.chunks) - 1) :
              calls[c].result.chunks[i].score >= calls[c].result.chunks[i + 1].score

\* C5 happens: an enhanced result in which a keyword chunk follows a chunk of
\* another strategy that its unscaled score exceeds
C5_Witness ==
    \E c \in Calls :
        /\ calls[c].pc = "done" /\ calls[c].path = "enhanced"
        /\ \E i \in 2..Len(calls[c].result.chunks), j \in 1..Len(calls[c].legacy_chunks) :
              /\ "chunk_id" \in DOMAIN calls[c].result.chunks[i].metadata
              /\ "chunk_id" \notin DOMAIN calls[c].result.chunks[i - 1].metadata
              /\ calls[c].legacy_chunks[j].metadata = calls[c].result.chunks[i].metadata
              /\ calls[c].legacy_chunks[j].score > calls[c].result.chunks[i - 1].score
              /\ calls[c].result.chunks[i].score < calls[c].result.chunks[i - 1].score

\* C6: every score is within [0,1]: the chunk scorer on every query, loaded
\* chunk and combination of the three flags, the entity scorer on every query
\* and loaded entity, and the score of every chunk of a returned result
C6_ScoresInUnitInterval ==
    /\ \A c \in Calls :
          (calls[c].pc = "done" /\ calls[c].outcome = "returned")
          => \A i \in 1..Len(calls[c].result.chunks) :
                calls[c].result.chunks[i].score \in 0..Scale
    /\ (\A c \in Calls : calls[c].pc = "idle")
       => /\ \A q \in Queries, d \in 1..Len(legacy.documents), flags \in [1..3 -> BOOLEAN] :
                \A n \in 1..Len(legacy.documents[d].val.chunks) :
                    _calculate_relevance_score(Lower(q), legacy.documents[d].val.chunks[n],
                                               flags[1], flags[2], flags[3]) \in 0..Scale
          /\ \A q \in Queries, d \in 1..Len(entities) :
                \A i \in 1..Len(entities[d].val) :
                    LET sc == _score_entity(Lower(q), ToSet(Split(Lower(q))), entities[d].val[i])
                    IN  ~sc.raised => sc.score \in 0..Scale

\* C6 happens: a returned entity chunk whose score is exactly 1, the sum of its
\* parts being above 1
C6_Witness ==
    \E c \in Calls :
        /\ calls[c].pc = "done" /\ calls[c].outcome = "returned"
        /\ \E i \in 1..Len(calls[c].result.chunks) :
              /\ "entity_class" \in DOMAIN calls[c].result.chunks[i].metadata
              /\ calls[c].result.chunks[i].score = Scale

\* neither entity data nor tree data is loaded
NoEnhancedData == tree_indexes = <<>> /\ entities = <<>>

\* C7: with no entity data and no tree data loaded, retrieve returns exactly
\* what the keyword/chunk scorer's retrieve returns for the same arguments
\* (same chunks, same order, unscaled scores, same total_found, top_k not
\* capped at 2) and the external reasoning call is not made
C7_NoIndexesMeansLegacyResult ==
    \A c \in Calls :
        (Settled(c) /\ NoEnhancedData)
        => /\ calls[c].outcome = "returned"
           /\ calls[c].result = LegacyRetrieve(calls[c].query, calls[c].top_k, calls[c].filt)
           /\ ~calls[c].llm_called

\* C7 happens: three keyword chunks come back, one more than the cap of the
\* enhanced path
C7_Witness ==
    \E c \in Calls :
        /\ Settled(c) /\ NoEnhancedData
        /\ Len(calls[c].result.chunks) > LegacyCap
        /\ \E i \in 1..Len(calls[c].result.chunks) : calls[c].result.chunks[i].score > 0

\* the query contains, case-insensitively, a keyword of a loaded document that
\* has at least one chunk
MatchesLoadedKeyword(query) ==
    \E d \in 1..Len(legacy.documents) :
        /\ legacy.documents[d].val.chunks # <<>>
        /\ \E k \in 1..Len(legacy.documents[d].val.keywords) :
              IsSubstr(Lower(legacy.documents[d].val.keywords[k]), Lower(query))

\* C8: with the entity and tree indexes absent, a query that contains a keyword
\* of a loaded document with at least one chunk, asked with top_k >= 1 and no
\* document filter, gets a non-empty result
C8_KeywordQueryFindsChunks ==
    \A c \in Calls :
        (Settled(c) /\ NoEnhancedData /\ calls[c].top_k >= 1 /\ calls[c].filt = ""
            /\ MatchesLoadedKeyword(calls[c].query))
        => /\ calls[c].outcome = "returned"
           /\ calls[c].result.chunks # <<>>

\* C8 happens: the query matches a keyword only when case is ignored, and not
\* one word of the query occurs in a returned chunk
C8_Witness ==
    \E c \in Calls :
        /\ Settled(c) /\ NoEnhancedData /\ calls[c].top_k >= 1 /\ calls[c].filt = ""
        /\ MatchesLoadedKeyword(calls[c].query)
        /\ \A d \in 1..Len(legacy.documents) :
              \A k \in 1..Len(legacy.documents[d].val.keywords) :
                  ~IsSubstr(legacy.documents[d].val.keywords[k], calls[c].query)
        /\ calls[c].result.chunks # <<>>
        /\ \A i \in 1..Len(calls[c].result.chunks) :
              WordSet(calls[c].result.chunks[i]) \cap ToSet(Split(Lower(calls[c].query))) = {}

\* C9: when no strategy yields a candidate (no entity chunk, no tree chunk, and
\* the keyword scorer finds nothing; this includes no document loaded and a
\* filter naming an unknown document), retrieve returns the empty result with
\* total_found = 0 and does not raise
C9_NoCandidateMeansEmptyResult ==
    \A c \in Calls :
        (/\ calls[c].pc = "done" /\ calls[c].finished_at = inits
         /\ calls[c].entity_chunks = <<>> /\ calls[c].tree_chunks = <<>>
         /\ LegacyRetrieve(calls[c].query, LegacyCap, calls[c].filt).total_found = 0)
        => /\ calls[c].outcome = "returned"
           /\ calls[c].result = NoResult

\* word-set overlap ratio |A intersect B| / max(|A|,|B|) above 0.6
OverlapAbove(a, b) ==
    LET A == WordSet(a)
        B == WordSet(b)
    IN  /\ A # {} /\ B # {}
        /\ 10 * Cardinality(A \cap B) > 6 * Max(Cardinality(A), Cardinality(B))

C11_DedupIdempotent ==
    (probe.op = "dedup" /\ probe.step = 2) => probe.twice = probe.once

\* C11 happens: the first application dropped a near-duplicate and kept two
\* chunks, and the function has been applied again
C11_Witness ==
    /\ probe.op = "dedup" /\ probe.step = 2
    /\ Len(probe.once) = 2
    /\ Len(probe.once) < Len(probe.chunks)
    /\ \A i \in 1..Len(probe.chunks) : WordSet(probe.chunks[i]) # {}

\* what retrieve returns for the arguments and the reply of the call when it
\* runs alone, from entry to return, on the indexes as they are now
Alone(call) ==
    LET Fused(ent) ==
            IF ent.raised THEN [outcome |-> "raised", result |-> NoResult]
            ELSE [outcome |-> "returned",
                  result |->
                     Fuse(ent.chunks \o
                             (IF has_trees /\ NeedsCall(tree_indexes, call.filt)
                              THEN TreeContribution(tree_indexes, call.resp, JsonValues)
                              ELSE <<>>),
                          LegacyRetrieve(call.query, LegacyCap, call.filt).chunks,
                          call.top_k).result]
    IN  IF UseLegacyOnly(has_trees, has_entities)
        THEN [outcome |-> "returned",
              result |-> LegacyRetrieve(call.query, call.top_k, call.filt)]
        ELSE Fused(IF has_entities THEN _entity_lookup(entities, call.query, call.filt)
                   ELSE [raised |-> FALSE, chunks |-> <<>>])

\* every call that ran with no initialize in between has the outcome and the
\* result of the same call run alone
SameAsAlone ==
    \A c \in DOMAIN calls :
        Settled(c) => /\ calls[c].outcome = Alone(calls[c]).outcome
                      /\ calls[c].result = Alone(calls[c]).result

\* a step of retrieve (the only steps that change a call) leaves the loaded
\* indexes as they are
RetrieveKeepsIndexes ==
    calls' # calls
    => UNCHANGED <<legacy, tree_indexes, entities, has_trees, has_entities>>

\* C12: retrieve never modifies the loaded indexes, and retrieve invocations
\* interleaved at the external reasoning call each return what they would
\* return if run alone against the same indexes
C12_ConcurrentRetrievesIndependent ==
    [][RetrieveKeepsIndexes]_vars /\ []SameAsAlone

\* C12 happens: a call has gone through the external reasoning call and
\* returned chunks while another call, with other entity candidates, is
\* suspended on its own external call
C12_Witness ==
    \E c, d \in DOMAIN calls :
        /\ Settled(c) /\ calls[c].llm_called /\ calls[c].result.chunks # <<>>
        /\ calls[d].pc = "awaiting" /\ calls[d].started_at = inits
        /\ calls[d].entity_chunks # calls[c].entity_chunks

\* C13: initialize does not fail because of a missing or malformed tree or
\* entity file: after an initialize whose keyword index was readable, the
\* provider's status is the keyword provider's status (initialize ran to its
\* end), no unusable tree is held in the tree index, and the trees of the other
\* documents of the snapshot are loaded
C13_InitializeSurvivesBadIndexFiles ==
    (inits > 0 /\ loaded[inits].index.kind # "malformed")
    => /\ status = legacy.status
       /\ \A n \in 1..Len(tree_indexes) : IsTreeObject(tree_indexes[n].val)
       /\ \A n \in 1..Len(loaded[inits].indexed_dir.files) :
             LET file == loaded[inits].indexed_dir.files[n]
             IN  (file.kind = "ok" /\ IsTreeObject(file.tree))
                 => DictGet(tree_indexes, file.doc_id, <<>>) = file.tree

\* C14: the line ranges of the chunks of a document, in order, cover every
\* line of the document exactly once: the first range starts at line 0, each
\* next range starts right after the previous one ends, and the last range
\* ends at the last line
C14_ChunkRangesCoverDocument ==
    (probe.op = "parse" /\ probe.step = 1)
    => LET chunks == probe.chunks
           last == Len(SplitOn(probe.text, "\n")) - 1
       IN  /\ chunks # <<>>
           /\ chunks[1].line_start = 0
           /\ \A i \in 1..Len(chunks) : chunks[i].line_start <= chunks[i].line_end
           /\ \A i \in 1..(Len(chunks) - 1) :
                 chunks[i + 1].line_start = chunks[i].line_end + 1
           /\ chunks[Len(chunks)].line_end = last

\* the chunk belongs to a section that a query mapping matched by the query
\* names for its document
InTargetSection(doc, chunk, query) ==
    _chunk_matches_section(chunk, doc.id,
        DictGet(_get_mapped_sections(legacy.query_mappings, Lower(query)), doc.id, <<>>),
        SecArtOfDoc(<<>>, doc.id, doc.sections, 1))

\* the title and content overlap signals of the chunk with the query
OverlapSignals(chunk, query) ==
    _calculate_relevance_score(Lower(query), chunk, FALSE, FALSE, FALSE)

\* the positions of a chunk of the document in a list of returned chunks
PlacesOf(chunks, doc, chunk) ==
    {i \in 1..Len(chunks) : /\ chunks[i].metadata.doc_id = doc.id
                            /\ chunks[i].metadata.chunk_id = chunk.id}

\* the first chunk is ranked ahead of the second one
RankedAhead(chunks, doc1, chunk1, doc2, chunk2) ==
    \A j \in PlacesOf(chunks, doc2, chunk2) :
        \E i \in PlacesOf(chunks, doc1, chunk1) : i < j

\* a retrieve answered by the keyword/chunk retrieve alone on the current indexes
KeywordRanked(c) ==
    calls[c].pc = "done" /\ calls[c].path = "legacy" /\ calls[c].finished_at = inits

C16_TargetSectionScoresHigher ==
    (/\ probe.op = "score" /\ probe.step = 1
     /\ OverlapSignals(probe.inside, probe.query) = OverlapSignals(probe.outside, probe.query))
    => probe.inside_score > probe.outside_score

\* two different chunks with the same overlap signals, all other bonuses
\* given: the score of the chunk in the target section reaches the clamp
C16_Witness ==
    /\ probe.op = "score" /\ probe.step = 1
    /\ probe.inside # probe.outside
    /\ OverlapSignals(probe.inside, probe.query) = OverlapSignals(probe.outside, probe.query)
    /\ probe.is_mapped /\ probe.has_keyword
    /\ probe.inside_score = Scale
    /\ probe.outside_score < Scale

\* the score the code gives to a keyword result it scales
ScaledScore(score) == (score * LegacyScaleNum) \div LegacyScaleDen

\* C17: on the enhanced path the score of each keyword result is multiplied by
\* 0.7 if and only if the entity and tree strategies together produced at
\* least one candidate in this call; when they produced none, every keyword
\* result keeps its score
C17_LegacyScaledIffOtherCandidates ==
    \A c \in Calls :
        (calls[c].pc = "done" /\ calls[c].path = "enhanced" /\ calls[c].outcome = "returned")
        => LET others == Len(calls[c].entity_chunks) + Len(calls[c].tree_chunks)
           IN  \A i \in 1..Len(calls[c].legacy_chunks) :
                  calls[c].candidates[others + i].score =
                      IF others > 0 THEN ScaledScore(calls[c].legacy_chunks[i].score)
                      ELSE calls[c].legacy_chunks[i].score

\* the indexes after initialize has read the snapshot d on the indexes g
AfterInitialize(g, d) ==
    LET Load(lr, tr, er) ==
            IF lr.raised THEN [g EXCEPT !.legacy = lr.leg]
            ELSE [legacy |-> lr.leg,
                  tree_indexes |-> tr.tree_indexes, has_trees |-> tr.has_trees,
                  entities |-> er.entities, has_entities |-> er.has_entities]
    IN  Load(LegacyInitialize(g.legacy, d.index),
             _load_tree_indexes(g.tree_indexes, g.has_trees, d.indexed_dir),
             _load_entities(g.entities, g.has_entities, d.entities_file))

\* the index generation published by the n-th initialize
RECURSIVE Generation(_)
Generation(n) ==
    IF n = 0
    THEN [legacy |-> EmptyLegacy, tree_indexes |-> <<>>, has_trees |-> FALSE,
          entities |-> <<>>, has_entities |-> FALSE]
    ELSE AfterInitialize(Generation(n - 1), loaded[n])

\* the call resolved the node references and ran the keyword strategy on the
\* indexes g
WorkedOn(call, g) ==
    /\ call.tree_chunks = TreeContribution(g.tree_indexes, call.resp, JsonValues)
    /\ call.legacy_chunks =
          LegacyRetrieveOn(g.legacy.documents, g.legacy.query_mappings,
                           g.legacy.all_keywords, hash_order,
                           call.query, LegacyCap, call.filt).chunks

\* C18: a retrieve that was suspended on the external reasoning call resolves
\* the returned node ids and runs the keyword strategy against the index
\* generation from which its compact view and its entity candidates were
\* taken, also when initialize ran in between
C18_SuspendedRetrieveUsesOneGeneration ==
    \A c \in Calls :
        (calls[c].pc = "done" /\ calls[c].llm_called)
        => WorkedOn(calls[c], Generation(calls[c].started_at))

\* what accepted, the list returned for the list candidates, has to satisfy:
\* no two near-duplicates in it, every discarded candidate overlapped by an
\* accepted chunk that scores at least as high, a best candidate accepted
DedupContract(candidates, accepted) ==
    /\ \A i, j \in 1..Len(accepted) : i # j => ~OverlapAbove(accepted[i], accepted[j])
    /\ \A i \in 1..Len(candidates) :
          ~InSeq(candidates[i], accepted)
          => \E k \in 1..Len(accepted) :
                /\ accepted[k].score >= candidates[i].score
                /\ OverlapAbove(accepted[k], candidates[i])
    /\ candidates # <<>>
       => \E k \in 1..Len(candidates) :
             /\ InSeq(candidates[k], accepted)
             /\ \A i \in 1..Len(candidates) : candidates[k].score >= candidates[i].score

\* C19: the list returned by the deduplication, and every result of the
\* enhanced path, holds no two chunks whose word sets overlap by more than 0.6;
\* a candidate is discarded only when an accepted chunk with a score greater
\* than or equal to its own overlaps it by more than 0.6; a candidate with the
\* highest score is always accepted
C19_NoNearDuplicatesReturned ==
    /\ (probe.op = "dedup" /\ probe.step >= 1) => DedupContract(probe.chunks, probe.once)
    /\ \A c \in Calls :
          (calls[c].pc = "done" /\ calls[c].outcome = "returned"
              /\ calls[c].path = "enhanced")
          => /\ DedupContract(calls[c].candidates, calls[c].accepted)
             /\ \A i, j \in 1..Len(calls[c].result.chunks) :
                   i # j => ~OverlapAbove(calls[c].result.chunks[i],
                                          calls[c].result.chunks[j])

\* C19 happens: a candidate was discarded as a near-duplicate of an accepted
\* chunk, and the best candidate, which stands behind a lower-scored candidate
\* in the list given to the deduplication, is returned first
C19_Witness ==
    /\ probe.op = "dedup" /\ probe.step >= 1
    /\ Len(probe.chunks) = MaxChunks
    /\ Len(probe.once) = 2
    /\ probe.chunks[1].score < probe.chunks[2].score
    /\ probe.once[1] = probe.chunks[2]
    /\ ~InSeq(probe.chunks[1], probe.once)

\* C20: when retrieve is called with the document filter doc_id = D, every
\* chunk of the result has the metadata doc_id = D, whichever strategy it
\* comes from and whatever node references the external call returned
C20_FilterRestrictsResult ==
    \A c \in Calls :
        (calls[c].pc = "done" /\ calls[c].outcome = "returned" /\ calls[c].filt # "")
        => \A i \in 1..Len(calls[c].result.chunks) :
              calls[c].result.chunks[i].metadata.doc_id = calls[c].filt

\* the sections of the document that a curated phrase occurring in the query
\* references as "document#section"
SelectedSections(doc, query) ==
    {n \in 1..Len(doc.sections) :
        \E m \in 1..Len(legacy.query_mappings) :
            /\ IsSubstr(legacy.query_mappings[m].key, Lower(query))
            /\ InSeq(doc.id \o "#" \o doc.sections[n].id, legacy.query_mappings[m].val)}

\* the article number of the chunk's title is listed in a selected section
ListedInSelectedSection(doc, chunk, query) ==
    LET Listed(article) ==
            /\ article # <<>>
            /\ \E n \in SelectedSections(doc, query) :
                  \E k \in 1..Len(doc.sections[n].articles) :
                      ToString(doc.sections[n].articles[k]) = article[1]
    IN  Listed(ArticleSearch(chunk.title))

\* the document is referenced by a curated phrase occurring in the query
MappedDocument(doc, query) ==
    HasKey(_get_mapped_sections(legacy.query_mappings, Lower(query)), doc.id)

\* the score of the chunk when it receives the target-section signal exactly
\* if in_section holds
ScoreWithSignal(doc, chunk, query, in_section) ==
    _calculate_relevance_score(Lower(query), chunk, MappedDocument(doc, query),
        doc.id \in _get_keyword_matched_documents(legacy.all_keywords, Lower(query)),
        in_section)

\* C21: a chunk receives the target-section signal exactly when the article
\* number of its title is listed among the articles of a section that the
\* query's curated mappings select for the chunk's own document; a chunk that
\* receives it also receives the mapped-document signal
C21_TargetSignalIffListedArticle ==
    \A c \in Calls : KeywordRanked(c) =>
        \A r \in 1..Len(calls[c].result.chunks), m \in 1..Len(legacy.documents) :
            LET doc == legacy.documents[m].val
                returned == calls[c].result.chunks[r]
            IN  \A i \in 1..Len(doc.chunks) :
                    (returned.metadata.doc_id = doc.id
                        /\ returned.metadata.chunk_id = doc.chunks[i].id)
                    => /\ returned.score =
                             ScoreWithSignal(doc, doc.chunks[i], calls[c].query,
                                 ListedInSelectedSection(doc, doc.chunks[i], calls[c].query))
                       /\ ListedInSelectedSection(doc, doc.chunks[i], calls[c].query)
                              => MappedDocument(doc, calls[c].query)

\* C21 happens: of two returned chunks of one document whose titles carry an
\* article number, one is listed in the selected section and has the signal
\* and the other one is not and has none
C21_Witness ==
    \E c \in Calls :
        /\ KeywordRanked(c)
        /\ \E m \in 1..Len(legacy.documents) :
              LET doc == legacy.documents[m].val
              IN  \E i, j \in 1..Len(doc.chunks) :
                     /\ ListedInSelectedSection(doc, doc.chunks[i], calls[c].query)
                     /\ ~ListedInSelectedSection(doc, doc.chunks[j], calls[c].query)
                     /\ ArticleSearch(doc.chunks[j].title) # <<>>
                     /\ PlacesOf(calls[c].result.chunks, doc, doc.chunks[i]) # {}
                     /\ PlacesOf(calls[c].result.chunks, doc, doc.chunks[j]) # {}

\* the document has a keyword that occurs, case ignored, in the query or in
\* one of its tokens
KeywordDocument(doc, query) ==
    \E k \in 1..Len(doc.keywords) :
        \/ IsSubstr(Lower(doc.keywords[k]), Lower(query))
        \/ \E w \in ToSet(Split(Lower(query))) : IsSubstr(Lower(doc.keywords[k]), w)

\* a curated phrase that occurs in the query references the document id
PhraseDocument(doc_id, query) ==
    \E m \in 1..Len(legacy.query_mappings) :
        /\ IsSubstr(legacy.query_mappings[m].key, Lower(query))
        /\ \E r \in 1..Len(legacy.query_mappings[m].val) :
              \/ legacy.query_mappings[m].val[r] = doc_id
              \/ StartsWith(legacy.query_mappings[m].val[r], doc_id \o "#")

\* the query matches some document
SomeDocumentMatched(query) ==
    \/ \E m \in 1..Len(legacy.documents) : KeywordDocument(legacy.documents[m].val, query)
    \/ \E m \in 1..Len(legacy.query_mappings) :
          /\ IsSubstr(legacy.query_mappings[m].key, Lower(query))
          /\ legacy.query_mappings[m].val # <<>>

\* the loaded documents whose chunks the retrieve has to score
DocumentsToScore(query, filt) ==
    {m \in 1..Len(legacy.documents) :
        /\ PassesFilter(filt, legacy.documents[m].val.id)
        /\ SomeDocumentMatched(query)
           => \/ KeywordDocument(legacy.documents[m].val, query)
              \/ PhraseDocument(legacy.documents[m].val.id, query)}

\* the chunks of these documents whose score is above 0
ChunksToReturn(query, filt) ==
    {p \in DocumentsToScore(query, filt) \X (1..MaxDocChunks) :
        /\ p[2] <= Len(legacy.documents[p[1]].val.chunks)
        /\ LET doc == legacy.documents[p[1]].val
           IN  ScoreWithSignal(doc, doc.chunks[p[2]], query,
                   ListedInSelectedSection(doc, doc.chunks[p[2]], query)) > 0}

\* C22: the keyword/chunk retrieve scores exactly the chunks of the documents
\* matched by the query through a keyword or a curated phrase, and the chunks
\* of all loaded documents only when no document is matched (in both cases the
\* documents that pass the document filter); chunks with the score 0 are not
\* returned
C22_ScoresMatchedDocuments ==
    \A c \in Calls : KeywordRanked(c) =>
        /\ calls[c].result.total_found =
              Cardinality(ChunksToReturn(calls[c].query, calls[c].filt))
        /\ \A r \in 1..Len(calls[c].result.chunks) :
              /\ calls[c].result.chunks[r].score > 0
              /\ \E p \in ChunksToReturn(calls[c].query, calls[c].filt) :
                    LET doc == legacy.documents[p[1]].val
                    IN  /\ calls[c].result.chunks[r].metadata.doc_id = doc.id
                        /\ calls[c].result.chunks[r].metadata.chunk_id = doc.chunks[p[2]].id

\* C22 happens: the query matches one of two loaded documents and only its
\* chunks are returned
C22_Witness ==
    \E c \in Calls :
        /\ KeywordRanked(c) /\ calls[c].filt = ""
        /\ SomeDocumentMatched(calls[c].query)
        /\ Cardinality(DocumentsToScore(calls[c].query, "")) < Len(legacy.documents)
        /\ calls[c].result.chunks # <<>>

\* C22 happens too: the query matches no document, the chunks of all loaded
\* documents are scored, and those scoring 0 are left out
C22_WitnessNoMatch ==
    \E c \in Calls :
        /\ KeywordRanked(c) /\ calls[c].filt = "" /\ calls[c].top_k = MaxTopK
        /\ ~SomeDocumentMatched(calls[c].query)
        /\ Len(legacy.documents) > 1
        /\ \E i, j \in 1..Len(calls[c].result.chunks) :
              calls[c].result.chunks[i].metadata.doc_id
                  # calls[c].result.chunks[j].metadata.doc_id
        /\ \E m \in 1..Len(legacy.documents) :
              \E i \in 1..Len(legacy.documents[m].val.chunks) :
                  PlacesOf(calls[c].result.chunks, legacy.documents[m].val,
                           legacy.documents[m].val.chunks[i]) = {}

\* the references of the curated phrases that occur in the query
MatchingRefs(table, query) ==
    UNION {ToSet(table[m].val) : m \in {k \in 1..Len(table) : IsSubstr(table[k].key, query)}}

\* C23: _get_mapped_sections returns, for every curated phrase that is a
\* substring of the query, each referenced document with the section ids of
\* its "document#section" references, each section id once per document; a
\* reference without a section part adds the document and no section; a
\* document referenced by no matching phrase is absent
C23_MappedSectionsOfMatchingPhrases ==
    (probe.op = "mapped" /\ probe.step = 1)
    => LET refs == MatchingRefs(probe.table, probe.query)
           matched == probe.matched
       IN  /\ {matched[i].key : i \in 1..Len(matched)} = {r.doc : r \in refs}
           /\ \A i, j \in 1..Len(matched) : matched[i].key = matched[j].key => i = j
           /\ \A i \in 1..Len(matched) :
                 /\ ToSet(matched[i].val) =
                       {r.sec : r \in {x \in refs : x.doc = matched[i].key /\ x.sec # ""}}
                 /\ \A a, b \in 1..Len(matched[i].val) :
                       matched[i].val[a] = matched[i].val[b] => a = b

\* C23 happens: both phrases occur in the query and reference the same section
\* of one document, which is returned with that section once, next to a
\* document referenced without a section
C23_Witness ==
    /\ probe.op = "mapped" /\ probe.step = 1
    /\ \A m \in 1..Len(probe.table) :
          /\ IsSubstr(probe.table[m].key, probe.query)
          /\ \E r \in 1..Len(probe.table[m].val) : probe.table[m].val[r].ref = "da#s1"
    /\ \E i \in 1..Len(probe.matched) : probe.matched[i].val = <<"s1">>
    /\ \E i \in 1..Len(probe.matched) : probe.matched[i].val = <<>>

\* the lines where a segment of the document starts: every "## " line, and
\* the first line
SegmentStarts(lines) ==
    LET IsStart(i) == i = 1 \/ StartsWith(lines[i], "## ")
    IN  SelectSeq(Positions(lines), IsStart)

\* the last line of the segment that starts at the n-th start
SegmentEnd(lines, starts, n) ==
    IF n = Len(starts) THEN Len(lines) ELSE starts[n + 1] - 1

\* the text of the segment of the lines first..last: its lines in order
\* without the title lines, trimmed
SegmentText(lines, first, last) ==
    LET Kept(i) == i >= first /\ i <= last /\ ~StartsWith(lines[i], "# ")
        Of(kept) == Strip(Join([k \in 1..Len(kept) |-> lines[kept[k]]], "\n"))
    IN  Of(SelectSeq(Positions(lines), Kept))

\* the text of the last title line among the lines 1..last ("" if none)
LastTitle(lines, last) ==
    LET Of(titles) == IF titles = {} THEN ""
                      ELSE Strip(SubSeq(lines[Greatest(titles)], 3,
                                        Len(lines[Greatest(titles)])))
    IN  Of({i \in 1..last : StartsWith(lines[i], "# ")})

\* the segments that yield a chunk, in document order: those whose text is
\* not empty
ChunkSegments(lines) ==
    LET With(starts) ==
            LET NotEmpty(n) ==
                    SegmentText(lines, starts[n], SegmentEnd(lines, starts, n)) # ""
            IN  SelectSeq(Positions(starts), NotEmpty)
    IN  With(SegmentStarts(lines))

EntitiesAboveThreshold(query, filt) ==
    LET Above(v) ==
            /\ ~RuleTypeRaises(v.entity)
            /\ EntityScore(Lower(query), ToSet(Split(Lower(query))), v.entity)
                  > EntityThreshold * Unit
    IN  SelectSeq(VisitedEntities(entities, filt), Above)

\* the entity chunks of the call are exactly the chunks of these entities,
\* each with a score in (0.3, 1]
ReturnsEntitiesAboveThreshold(call) ==
    LET Of(above) ==
            /\ Len(call.entity_chunks) = Len(above)
            /\ \A i \in 1..Len(above) :
                  /\ call.entity_chunks[i].content
                        = _format_entity_as_context(above[i].entity)
                  /\ call.entity_chunks[i].metadata.doc_id = above[i].doc_id
                  /\ call.entity_chunks[i].score > EntityThreshold * Unit
                  /\ call.entity_chunks[i].score <= Scale
    IN  Of(EntitiesAboveThreshold(call.query, call.filt))

\* C25: entity lookup returns an entity exactly when its clamped score is
\* strictly above 0.3 and its document is not excluded by the filter; every
\* entity chunk returned has a score in (0.3, 1]
C25_EntityReturnedIffAboveThreshold ==
    \A c \in Calls :
        (calls[c].pc # "idle" /\ calls[c].path = "enhanced" /\ calls[c].started_at = inits)
        => ReturnsEntitiesAboveThreshold(calls[c])

\* the same for the calls in which _score_entity raised for no entity
C25_HoldsWhenScoringReturns ==
    \A c \in Calls :
        (calls[c].pc # "idle" /\ calls[c].path = "enhanced" /\ calls[c].started_at = inits
            /\ calls[c].outcome # "raised")
        => ReturnsEntitiesAboveThreshold(calls[c])

\* no word of the query occurs in the entity's text, in an attribute key or in
\* an attribute value
NoTextOrAttributeMatch(entity, query) ==
    LET words == ToSet(Split(Lower(query)))
    IN  /\ words \cap ToSet(Split(Lower(entity.text))) = {}
        /\ \A i \in 1..Len(entity.attributes) :
              \A w \in words :
                  /\ ~IsSubstr(w, Lower(entity.attributes[i].key))
                  /\ ~IsSubstr(w, Lower(entity.attributes[i].val.s))

\* the query contains a phrase of the synonym table and the entity's
\* rule_type matches a tag mapped to that phrase
SynonymBonusApplies(entity, query) ==
    \E k \in 1..Len(keyword_bonuses) :
        /\ IsSubstr(keyword_bonuses[k].key, Lower(query))
        /\ \E r \in 1..Len(keyword_bonuses[k].val) :
              IsSubstr(keyword_bonuses[k].val[r],
                       Lower(DictGet(entity.attributes, "rule_type", StrVal("")).s))

\* C26: the synonym bonus adds exactly 0.3 to an entity's score when the query
\* contains a phrase of the synonym table and the entity's rule_type matches a
\* tag of that phrase, and 0 otherwise; it is never more than 0.3.  For an
\* entity with no other match the score is the bonus.
C26_SynonymBonusIsThreeTenths ==
    (probe.op = "entity" /\ probe.step = 1
        /\ NoTextOrAttributeMatch(probe.entity, probe.query))
    => probe.score = IF SynonymBonusApplies(probe.entity, probe.query)
                     THEN RuleTypeBonus * Unit ELSE 0

\* the bonus is 0 when it does not apply and at least 0.3 when it applies
C26_BonusOnlyWhenItApplies ==
    (probe.op = "entity" /\ probe.step = 1
        /\ NoTextOrAttributeMatch(probe.entity, probe.query))
    => IF SynonymBonusApplies(probe.entity, probe.query)
       THEN probe.score >= RuleTypeBonus * Unit ELSE probe.score = 0

\* the entity's only match with the query is a word of its text: no attribute
\* key or value contains a word of the query and no synonym bonus applies
OnlyTextMatches(entity, query) ==
    LET words == ToSet(Split(Lower(query)))
    IN  /\ words \cap ToSet(Split(Lower(entity.text))) # {}
        /\ \A i \in 1..Len(entity.attributes) :
              \A w \in words :
                  /\ ~IsSubstr(w, Lower(entity.attributes[i].key))
                  /\ ~IsSubstr(w, Lower(entity.attributes[i].val.s))
        /\ ~SynonymBonusApplies(entity, query)

\* C27: an entity whose only match with the query is word overlap with its
\* text is never returned by entity lookup, even when every word of the query
\* occurs in its text.
C27_TextOverlapAloneNeverReturned ==
    (probe.op = "entity" /\ probe.step = 2
        /\ OnlyTextMatches(probe.entity, probe.query))
    => probe.found = <<>>

\* the lookup ran on an entity whose text holds every word of the query and
\* that matches in no other way
C27_Witness ==
    /\ probe.op = "entity" /\ probe.step = 2
    /\ OnlyTextMatches(probe.entity, probe.query)
    /\ ToSet(Split(Lower(probe.query))) \subseteq ToSet(Split(Lower(probe.entity.text)))
    /\ probe.score = EntityThreshold * Unit

\* some lookup of the pool returns its entity
C27_WitnessReturned ==
    probe.op = "entity" /\ probe.step = 2 /\ probe.found # <<>>

\* the node a reference names: the first node with that id in the forest of
\* the referenced document, <<>> when the document has no forest or the
\* forest no such node
ReferencedNode(trees, ref) ==
    LET FirstWithId(flat) ==
            LET at == SelectSeq([i \in 1..Len(flat) |-> i],
                                LAMBDA i : flat[i].node_id = ref.node_id)
            IN  IF at = <<>> THEN <<>> ELSE <<flat[at[1]]>>
    IN  IF HasKey(trees, ref.doc_id) /\ IsTreeObject(DictGet(trees, ref.doc_id, <<>>))
        THEN FirstWithId(PreOrder(DictGet(trees, ref.doc_id, <<>>).structure))
        ELSE <<>>

\* the first three entries of the reply, when the reply is a JSON array of
\* node references; <<>> otherwise
FirstNodeRefs(resp) ==
    LET Of(parsed) ==
            IF parsed = <<>> \/ parsed[1].type # "list" THEN <<>>
            ELSE IF \E i \in 1..Min(MaxNodeRefs, Len(parsed[1].items)) :
                        ~parsed[1].items[i].isobj
                 THEN <<>>
                 ELSE [i \in 1..Min(MaxNodeRefs, Len(parsed[1].items)) |-> parsed[1].items[i]]
    IN  IF resp.raises THEN <<>> ELSE Of(JsonLoads(StripFences(resp.text), JsonValues))

\* the tree chunks are those of the references that name a node with text,
\* in the order of the reply, each with the node's text and the score of its
\* relevance
YieldsChunksOfRefs(trees, refs, chunks) ==
    LET Yielding(r) == /\ ReferencedNode(trees, r) # <<>>
                       /\ ReferencedNode(trees, r)[1].text # ""
        Expect(yielding) ==
            /\ Len(chunks) = Len(yielding)
            /\ \A i \in 1..Len(yielding) :
                  /\ chunks[i].content = ReferencedNode(trees, yielding[i])[1].text
                  /\ chunks[i].metadata.doc_id = yielding[i].doc_id
                  /\ chunks[i].metadata.node_id = yielding[i].node_id
                  /\ yielding[i].relevance = "high" => chunks[i].score = HighScore * Unit
                  /\ yielding[i].relevance = "medium" => chunks[i].score = MediumScore * Unit
    IN  Expect(SelectSeq(refs, Yielding))

\* C28: the tree strategy turns at most the first 3 node references of the
\* reply into chunks; each reference is resolved by node id in the forest of
\* the referenced document and yields a chunk with that node's full text and
\* score 0.95 for relevance high, 0.80 for medium; a reference to an unknown
\* document, an unknown node id or a node without text yields no chunk.
C28_TreeChunksOfFirstThreeRefs ==
    \A c \in Calls :
        (calls[c].pc = "done" /\ calls[c].llm_called /\ calls[c].finished_at = inits
            /\ FirstNodeRefs(calls[c].resp) # <<>>)
        => YieldsChunksOfRefs(tree_indexes, FirstNodeRefs(calls[c].resp),
                              calls[c].tree_chunks)

\* the same for the replies in which no reference names a document whose
\* loaded tree file is not a JSON object
C28_HoldsWhenForestsAreObjects ==
    \A c \in Calls :
        (calls[c].pc = "done" /\ calls[c].llm_called /\ calls[c].finished_at = inits
            /\ FirstNodeRefs(calls[c].resp) # <<>>
            /\ \A i \in 1..Len(FirstNodeRefs(calls[c].resp)) :
                  ~ResolveRaises(tree_indexes, FirstNodeRefs(calls[c].resp)[i]))
        => YieldsChunksOfRefs(tree_indexes, FirstNodeRefs(calls[c].resp),
                              calls[c].tree_chunks)

\* a reply of four entries whose first three are node references: a node with
\* text, a node without text and an unknown document; one chunk results
C28_WitnessFirstThree ==
    \E c \in Calls :
        /\ calls[c].pc = "done" /\ calls[c].llm_called /\ calls[c].finished_at = inits
        /\ Len(FirstNodeRefs(calls[c].resp)) = MaxNodeRefs
        /\ Len(calls[c].tree_chunks) = 1
        /\ calls[c].tree_chunks[1].score = MediumScore * Unit

\* the compact view has the shape of the forest: the same nodes in the same
\* order with the same ids, titles, summaries and numbers of children, and no
\* node of it has a text
SameShapeWithoutText(forest, compact) ==
    LET Same(a, b) ==
            /\ Len(a) = Len(b)
            /\ \A i \in 1..Len(a) :
                  /\ b[i].node_id = a[i].node_id
                  /\ b[i].title = a[i].title
                  /\ b[i].summary = a[i].summary
                  /\ Len(b[i].nodes) = Len(a[i].nodes)
                  /\ "text" \notin DOMAIN b[i]
    IN  /\ Len(compact) = Len(forest)
        /\ Same(PreOrder(forest), PreOrder(compact))

\* the result of findNode for an id: the node of the forest with that id,
\* text included, and nothing when the forest has no such node
FindsNodeOfForest(forest, id, found) ==
    LET With(flat) ==
            IF \E i \in 1..Len(flat) : flat[i].node_id = id
            THEN /\ found # <<>>
                 /\ \E i \in 1..Len(flat) : flat[i].node_id = id /\ found[1] = flat[i]
                 /\ "text" \in DOMAIN found[1]
            ELSE found = <<>>
    IN  With(PreOrder(forest))

\* C29: the compact view of a forest has the same shape as the forest and no
\* full text at any depth; for every node id of the compact view findNode
\* returns the node of the original forest with that id, full text included,
\* and nothing for an id that is not in the forest.
C29_CompactViewAndFindNode ==
    /\ (probe.op = "tree" /\ probe.step >= 1)
          => SameShapeWithoutText(probe.forest, probe.compact)
    /\ (probe.op = "tree" /\ probe.step = 2)
          => FindsNodeOfForest(probe.forest, probe.target_id, probe.found)

\* a node of the third level, read in the compact view, is found with its text
C29_Witness ==
    /\ probe.op = "tree" /\ probe.step = 2
    /\ probe.found # <<>>
    /\ probe.found[1].text # ""
    /\ \E i \in 1..Len(probe.forest) :
          \E j \in 1..Len(probe.forest[i].nodes) :
              \E k \in 1..Len(probe.forest[i].nodes[j].nodes) :
                  /\ probe.forest[i].nodes[j].nodes[k] = probe.found[1]
                  /\ probe.compact[i].nodes[j].nodes[k].node_id = probe.target_id

\* an id that is not in the forest is looked up in a forest with nodes
C29_WitnessUnknownId ==
    /\ probe.op = "tree" /\ probe.step = 2
    /\ probe.forest # <<>>
    /\ probe.found = <<>>

\* the heading lines of a document, as 0-based line numbers in document order
HeadingLines(content) ==
    LET Of(lines) == SelectSeq([i \in 1..Len(lines) |-> i - 1],
                               LAMBDA i : IsHeader(lines[i + 1]))
    IN  Of(SplitOn(content, "\n"))

\* the place of the nearest preceding heading with a strictly smaller level,
\* 0 when there is none
NearestSmallerLevel(flat, i) ==
    LET before == {j \in 1..(i - 1) : flat[j].level < flat[i].level}
    IN  IF before = {} THEN 0 ELSE Greatest(before)

\* the forest holds the headings of the document, each once, in document
\* order when read depth first; the node ids differ; node i hangs under the
\* nearest preceding heading of a smaller level, or is a root
HierarchyOfHeadings(content, flat, forest) ==
    LET Holds(order, lines) ==
            /\ Len(flat) = Len(lines)
            /\ Len(order) = Len(flat)
            /\ \A i \in 1..Len(order) :
                  /\ order[i].start_index = lines[i]
                  /\ order[i].title = flat[i].title
                  /\ order[i].text = flat[i].text
            /\ \A i, j \in 1..Len(order) : i # j => order[i].node_id # order[j].node_id
            /\ \A i \in 1..Len(order) :
                  IF NearestSmallerLevel(flat, i) = 0
                  THEN \E k \in 1..Len(forest) : forest[k] = order[i]
                  ELSE \E k \in 1..Len(order[NearestSmallerLevel(flat, i)].nodes) :
                          order[NearestSmallerLevel(flat, i)].nodes[k] = order[i]
    IN  Holds(PreOrder(forest), HeadingLines(content))

\* C30: the hierarchy step places every heading node of the document exactly
\* once in the forest: the depth-first pre-order of the forest is the document
\* order of the headings, the node ids are pairwise distinct, and the parent
\* of each node is the nearest preceding heading with a strictly smaller
\* level (a root when there is none).
C30_ForestHoldsEveryHeadingOnce ==
    (probe.op = "build" /\ probe.step = 2)
    => HierarchyOfHeadings(probe.content, probe.flat, probe.forest)

\* four headings: a child, then a heading of the same level as that child,
\* then a new root
C30_Witness ==
    /\ probe.op = "build" /\ probe.step = 2
    /\ Len(probe.flat) = MaxHeadings
    /\ Len(probe.forest) = 2
    /\ Len(probe.forest[1].nodes) = 2
    /\ probe.flat[2].level = probe.flat[3].level

\* a document that starts below the level of a later heading, and a heading
\* that skips a level
C30_WitnessSkippedLevel ==
    /\ probe.op = "build" /\ probe.step = 2
    /\ Len(probe.flat) >= 3
    /\ probe.flat[1].level = 2 /\ probe.flat[2].level = 1 /\ probe.flat[3].level = 3
    /\ Len(probe.forest) = 2
    /\ Len(probe.forest[2].nodes) >= 1

====
